---- MODULE Spec2Model ----
(***************************************************************************)
(* purpl-rs render system: the Vulkan backend (engine/rendersystem/        *)
(* vulkan.rs), its facade (engine/rendersystem/mod.rs) and the XCB video   *)
(* component (platform/unix/video.rs) as a state machine.                  *)
(*                                                                         *)
(* Unsigned machine words are kept at their real width.  TLC's integers    *)
(* are 32-bit signed, so a u32 is a tuple of 4 bytes and a u64 a tuple of  *)
(* 8 bytes, least significant byte first; an i32 is a TLC integer.         *)
(***************************************************************************)
EXTENDS Integers, Sequences, FiniteSets, TLC

VARIABLES
    overflow_checks,   \* build profile: TRUE = debug (overflow panics), FALSE = release (wraps)
    devices,           \* what the driver reports for each enumerated VkPhysicalDevice
    pc,                \* position: "start", "returned", "ready", "panicked", "shutdown"
    panic_msg,         \* the panic that ended the run, "" when none
    last_op,           \* the handler that ran last and its argument
    ret,               \* what the last set_gpu returned
    calls,             \* the Vulkan calls the last handler issued, in order
    video,             \* platform::video::State: width, height, resized, focused, closed
    \* the fields of rendersystem::vulkan::State
    instance, device, surface, allocator,
    gpu,               \* usize, 0-based index into gpus
    gpus,              \* Vec<GpuInfo>
    graphics_queue, compute_queue,
    command_pool, transfer_pool, command_buffers,
    fences, acquire_semaphores, render_complete_semaphores,
    swapchain, swapchain_images, swapchain_views,
    surface_format, present_mode, swapchain_extent,
    depth_image,
    descriptor_layout, descriptor_pool,
    uniform_buffers,
    \* the driver's side
    generation,        \* how many swapchains have been created
    signaled,          \* the fences that are in the signaled state
    destroyed,         \* every handle that has been destroyed
    \* the backend as rendersystem::State sees it
    loaded,            \* what backend.is_loaded() reports
    in_frame,          \* what backend.is_in_frame() reports
    backend_data,      \* the ShaderData and ModelData the backend has created, in order
    \* the fields of rendersystem::State and the shared objects they hold
    shaders, materials, models,   \* HashMap<String, ThingHolder<_>>: name -> arc, 0 when absent
    arcs,              \* the Arc allocations: Shader, Material and Model objects
    result,            \* what the last Shader::new, Material::new or Model::new returned
    request,           \* the arguments and the outcomes of the I/O of that call
    \* the driver's side of Buffer::copy and Image::new
    transfer_buffers,  \* command buffers allocated from the transfer pool and not freed
    live_images,       \* images, allocations and views created and not destroyed
    handles,           \* how many Buffer::copy and Image::new calls have asked for handles
    \* the last call of a helper: its arguments, the driver's answers, what it returned
    copy_call,         \* Buffer::copy
    image_call,        \* Image::new, with the two descriptors it writes to
    fmt_call,          \* Image::choose_fmt
    video_call         \* video::State::update and resized: the polled event, the bools returned

gpu_vars == <<overflow_checks, devices, pc, panic_msg, gpus, gpu>>

\* State fields that only State::init assigns
init_vars ==
    <<instance, device, surface, allocator, graphics_queue, compute_queue,
      command_pool, transfer_pool, command_buffers,
      fences, acquire_semaphores, render_complete_semaphores,
      surface_format, present_mode, swapchain_extent,
      descriptor_layout, descriptor_pool, uniform_buffers, signaled>>

\* State fields that recreate_swapchain replaces
swapchain_vars == <<swapchain, swapchain_images, swapchain_views, depth_image, generation>>

backend_vars == <<init_vars, swapchain_vars, destroyed, calls, ret>>

\* rendersystem::State and what it reads of the backend
facade_vars ==
    <<loaded, in_frame, backend_data, shaders, materials, models, arcs, result, request>>

\* what the helpers outside State's life cycle read and write
call_vars ==
    <<transfer_buffers, live_images, handles, copy_call, image_call, fmt_call, video_call>>

vars == <<gpu_vars, last_op, video, backend_vars, facade_vars, call_vars>>

-----------------------------------------------------------------------------
(* Bounds of the model *)

MaxDevices == 2

\* recreate_swapchain runs at most this many times
MaxRecreate == 2

\* a swapchain holds FRAME_COUNT .. FRAME_COUNT + MaxExtraImages images
MaxExtraImages == 1

\* set_gpu is called with 0 .. MaxGpuArg
MaxGpuArg == 2

-----------------------------------------------------------------------------
(* Byte-tuple arithmetic (least significant byte first) *)

RECURSIVE ToBytes(_, _)
ToBytes(n, len) ==
    IF len = 0 THEN <<>> ELSE <<n % 256>> \o ToBytes(n \div 256, len - 1)

Low(a, n) == SubSeq(a, 1, n)

Pad(a, n) == a \o [i \in 1..(n - Len(a)) |-> 0]

\* a + b + c for tuples of equal length; one byte longer (the carry out)
RECURSIVE AddCarry(_, _, _)
AddCarry(a, b, c) ==
    IF a = <<>> THEN <<c>>
    ELSE LET s == a[1] + b[1] + c
         IN  <<s % 256>> \o AddCarry(Tail(a), Tail(b), s \div 256)

\* a * k + c for a byte-sized k; one byte longer (the carry out)
RECURSIVE MulSmall(_, _, _)
MulSmall(a, k, c) ==
    IF a = <<>> THEN <<c>>
    ELSE LET p == a[1] * k + c
         IN  <<p % 256>> \o MulSmall(Tail(a), k, p \div 256)

\* a * b, of length Len(a) + Len(b): never overflows
RECURSIVE MulBytes(_, _)
MulBytes(a, b) ==
    IF b = <<>> THEN Pad(<<>>, Len(a))
    ELSE LET n    == Len(a) + Len(b)
             low  == Pad(MulSmall(a, b[1], 0), n)
             rest == <<0>> \o MulBytes(a, Tail(b))
         IN  Low(AddCarry(low, rest, 0), n)

\* a / d and a % d for 0 < d < 2^23, by long division from the top byte
RECURSIVE DivRem(_, _)
DivRem(a, d) ==
    IF a = <<>> THEN [q |-> <<>>, r |-> 0]
    ELSE LET hi  == DivRem(Tail(a), d)
             cur == hi.r * 256 + a[1]
         IN  [q |-> <<cur \div d>> \o hi.q, r |-> cur % d]

DivSmall(a, d) == DivRem(a, d).q

\* a < b as unsigned numbers, for tuples of equal length
RECURSIVE Less(_, _)
Less(a, b) ==
    IF a = <<>> THEN FALSE
    ELSE \/ Less(Tail(a), Tail(b))
         \/ Tail(a) = Tail(b) /\ a[1] < b[1]

\* giga * 10^9 + rest as a u64 (giga, rest < 2^31)
U64(giga, rest) ==
    Low(AddCarry(MulBytes(ToBytes(giga, 4), ToBytes(1000000000, 4)),
                 ToBytes(rest, 8), 0), 8)

U32(n) == ToBytes(n, 4)

-----------------------------------------------------------------------------
(* What the Vulkan driver reports for a physical device (the inputs of get_gpus) *)

Ok(v)  == [ok |-> TRUE,  val |-> v]
Err(v) == [ok |-> FALSE, val |-> v]   \* v: an unused value of the Ok type

QueueFamily(count, flags) == [queue_count |-> count, queue_flags |-> flags]

SurfaceFormat(f, cs) == [format |-> f, color_space |-> cs]

DepthFormats == {"D32_SFLOAT_S8_UINT", "D24_UNORM_S8_UINT"}

\* vkGetPhysicalDeviceFormatProperties for the depth formats: the features
\* of `with` formats include DEPTH_STENCIL_ATTACHMENT, those of the others do not
FormatProps(with) ==
    [f \in DepthFormats |->
        [linear_tiling_features  |-> {},
         optimal_tiling_features |->
            IF f \in with THEN {"DEPTH_STENCIL_ATTACHMENT", "SAMPLED_IMAGE"}
                          ELSE {"SAMPLED_IMAGE"}]]

\* The score inputs: memory_heaps[0].size (u64), limits.max_viewport_dimensions
\* (two u32), props.device_type
ScoreInputs(heap0, vw, vh, type) ==
    [heap0_size |-> heap0, max_viewport_dimensions |-> <<vw, vh>>, device_type |-> type]

Device(families, exts, caps, fmts, modes, si, depth) ==
    [queue_family_props      |-> families,
     extension_props         |-> exts,
     surface_capabilities    |-> caps,
     surface_formats         |-> fmts,
     present_modes           |-> modes,
     heap0_size              |-> si.heap0_size,
     max_viewport_dimensions |-> si.max_viewport_dimensions,
     device_type             |-> si.device_type,
     format_props            |-> FormatProps(depth)]

GC == {"GRAPHICS", "COMPUTE"}
BGRA == SurfaceFormat("B8G8R8A8_UNORM", "SRGB_NONLINEAR")
RGBA == SurfaceFormat("R8G8B8A8_SRGB", "SRGB_NONLINEAR")

\* 8 GiB discrete GPU, 16384 x 16384 viewport
TypicalScore == ScoreInputs(U64(8, 589934592), U32(16384), U32(16384), "DISCRETE_GPU")

\* A device that passes every filter step, with the score inputs si
Usable(si) ==
    Device(<<QueueFamily(1, GC)>>, Ok(<<"VK_KHR_swapchain">>), Ok("caps"),
           Ok(<<BGRA>>), Ok(<<"FIFO">>), si, DepthFormats)

\* Devices that differ in what the filter steps (a)-(f) look at
FilterDevices ==
    { Device(f, e, c, s, p, TypicalScore, DepthFormats) :
        <<f, e, c, s, p>> \in
          { \* (a) no queue family
            << <<>>, Ok(<<"VK_KHR_swapchain">>), Ok("caps"), Ok(<<BGRA>>), Ok(<<"FIFO">>) >>,
            \* (b) graphics only
            << <<QueueFamily(1, {"GRAPHICS"})>>, Ok(<<"VK_KHR_swapchain">>), Ok("caps"),
               Ok(<<BGRA>>), Ok(<<"FIFO">>) >>,
            \* (b) compute only, after a transfer-only family
            << <<QueueFamily(1, {"TRANSFER"}), QueueFamily(2, {"COMPUTE"})>>,
               Ok(<<"VK_KHR_swapchain">>), Ok("caps"), Ok(<<BGRA>>), Ok(<<"FIFO">>) >>,
            \* (b) the only graphics+compute family has no queue
            << <<QueueFamily(0, GC), QueueFamily(1, {"TRANSFER"})>>,
               Ok(<<"VK_KHR_swapchain">>), Ok("caps"), Ok(<<BGRA>>), Ok(<<"FIFO">>) >>,
            \* passes: compute in family 0, graphics in family 2
            << <<QueueFamily(1, {"COMPUTE"}), QueueFamily(0, GC), QueueFamily(4, {"GRAPHICS"})>>,
               Ok(<<"VK_KHR_swapchain", "VK_KHR_maintenance1">>), Ok("caps"),
               Ok(<<RGBA, BGRA>>), Ok(<<"FIFO", "MAILBOX">>) >>,
            \* (c) no extension, and the query failing
            << <<QueueFamily(1, GC)>>, Ok(<<>>), Ok("caps"), Ok(<<BGRA>>), Ok(<<"FIFO">>) >>,
            << <<QueueFamily(1, GC)>>, Err(<<>>), Ok("caps"), Ok(<<BGRA>>), Ok(<<"FIFO">>) >>,
            \* (d) surface capabilities query fails
            << <<QueueFamily(1, GC)>>, Ok(<<"VK_KHR_swapchain">>), Err("caps"),
               Ok(<<BGRA>>), Ok(<<"FIFO">>) >>,
            \* (e) no surface format, and the query failing
            << <<QueueFamily(1, GC)>>, Ok(<<"VK_KHR_swapchain">>), Ok("caps"),
               Ok(<<>>), Ok(<<"FIFO">>) >>,
            << <<QueueFamily(1, GC)>>, Ok(<<"VK_KHR_swapchain">>), Ok("caps"),
               Err(<<>>), Ok(<<"FIFO">>) >>,
            \* (f) no present mode, and the query failing
            << <<QueueFamily(1, GC)>>, Ok(<<"VK_KHR_swapchain">>), Ok("caps"),
               Ok(<<BGRA>>), Ok(<<>>) >>,
            << <<QueueFamily(1, GC)>>, Ok(<<"VK_KHR_swapchain">>), Ok("caps"),
               Ok(<<BGRA>>), Err(<<>>) >> } }

\* Usable devices that differ in the score inputs
ScoreDevices ==
    { Usable(si) : si \in
        { TypicalScore,
          \* 2 GiB integrated and a CPU device
          ScoreInputs(U64(2, 147483648), U32(16384), U32(16384), "INTEGRATED_GPU"),
          ScoreInputs(U64(2, 147483648), U32(8192), U32(8192), "CPU"),
          \* 300 GB virtual GPU: score 3 002 684 350 >= 2^31, no overflow
          ScoreInputs(U64(300, 0), U32(16384), U32(16384), "VIRTUAL_GPU"),
          \* score exactly 2^31: 2 147 482 648 + 1000, times 1
          ScoreInputs(U64(2147, 482648000), U32(1000), U32(1000), "OTHER"),
          \* 512 GiB discrete GPU: 549 755 813 + 268 435, times 10, exceeds u32
          ScoreInputs(U64(549, 755813888), U32(16384), U32(16384), "DISCRETE_GPU"),
          \* heap0 / 1000 = 2^32 - 1: the addition exceeds u32
          ScoreInputs(U64(4294, 967295000), U32(16384), U32(16384), "OTHER"),
          \* heap0 / 1000 = 2^32: the cast to u32 drops the top bit
          ScoreInputs(U64(4294, 967296000), U32(16384), U32(16384), "OTHER"),
          \* viewport product / 1000 = 9 000 000 000: the cast to u32 truncates
          ScoreInputs(U64(1, 0), U32(3000000), U32(3000000), "INTEGRATED_GPU") } }

DeviceSet == FilterDevices \cup ScoreDevices

RECURSIVE SeqsUpTo(_, _)
SeqsUpTo(S, n) ==
    IF n = 0 THEN {<<>>}
    ELSE LET shorter == SeqsUpTo(S, n - 1)
         IN  shorter \cup {Append(s, x) : s \in {t \in shorter : Len(t) = n - 1}, x \in S}

DeviceLists == SeqsUpTo(DeviceSet, MaxDevices)

-----------------------------------------------------------------------------
(* State::get_gpus *)

get_required_device_exts == <<"VK_KHR_swapchain">>

Min(S) == CHOOSE x \in S : \A y \in S : x <= y

\* queue_family_props.iter().enumerate().find(queue_count >= 1 && flags.contains(flag)):
\* the 0-based index of the first such family, or None
FindFamilyIgnoringCount(queue_family_props, flag) ==
    LET hits == {i \in 1..Len(queue_family_props) :
                    flag \in queue_family_props[i].queue_flags}
    IN  IF hits = {} THEN [some |-> FALSE, idx |-> 0]
        ELSE [some |-> TRUE, idx |-> Min(hits) - 1]

FindFamily(queue_family_props, flag) ==
    LET hits == {i \in 1..Len(queue_family_props) :
                    /\ queue_family_props[i].queue_count >= 1
                    /\ flag \in queue_family_props[i].queue_flags}
    IN  IF hits = {} THEN [some |-> FALSE, idx |-> 0]
        ELSE [some |-> TRUE, idx |-> Min(hits) - 1]

\* The score arithmetic of lines 611-624.  `checks`: the build panics on
\* overflow of + and *= (debug) instead of wrapping (release); `as u32`
\* truncates in both.
PerformanceScore(dev, checks) ==
    LET heap_k == Low(DivSmall(dev.heap0_size, 1000), 4)
        view_k == Low(DivSmall(MulBytes(dev.max_viewport_dimensions[1],
                                        dev.max_viewport_dimensions[2]), 1000), 4)
        sum    == AddCarry(heap_k, view_k, 0)
        factor == IF dev.device_type \in {"DISCRETE_GPU", "VIRTUAL_GPU"} THEN 10
                  ELSE IF dev.device_type = "INTEGRATED_GPU" THEN 2
                  ELSE 1
        prod   == MulSmall(Low(sum, 4), factor, 0)
    IN  IF checks /\ (sum[5] # 0 \/ prod[5] # 0)
        THEN [overflow |-> TRUE,  score |-> U32(0)]
        ELSE [overflow |-> FALSE, score |-> Low(prod, 4)]

\* One iteration of the loop of lines 517-651 for the i-th enumerated device:
\* "skip" (continue), "panic" (arithmetic overflow) or "gpu" with the GpuInfo pushed
ProbeDevice(dev, i, checks) ==
    LET skip     == [kind |-> "skip", info |-> <<>>]
        graphics == FindFamily(dev.queue_family_props, "GRAPHICS")
        compute  == FindFamily(dev.queue_family_props, "COMPUTE")
        score    == PerformanceScore(dev, checks)
    IN  IF dev.queue_family_props = <<>> THEN skip
        ELSE IF ~graphics.some THEN skip
        ELSE IF ~compute.some THEN skip
        ELSE IF ~dev.extension_props.ok THEN skip
        ELSE IF ~(Len(dev.extension_props.val) >= Len(get_required_device_exts)) THEN skip
        ELSE IF ~dev.surface_capabilities.ok THEN skip
        ELSE IF ~dev.surface_formats.ok \/ dev.surface_formats.val = <<>> THEN skip
        ELSE IF ~dev.present_modes.ok \/ dev.present_modes.val = <<>> THEN skip
        ELSE IF score.overflow THEN [kind |-> "panic", info |-> <<>>]
        ELSE [kind |-> "gpu",
              info |-> [device                |-> i,
                        format_props          |-> dev.format_props,
                        device_type           |-> dev.device_type,
                        surface_formats       |-> dev.surface_formats.val,
                        present_modes         |-> dev.present_modes.val,
                        graphics_family_index |-> graphics.idx,
                        compute_family_index  |-> compute.idx,
                        performance_score     |-> score.score]]

RECURSIVE ProbeAll(_, _, _, _)
ProbeAll(devs, i, acc, checks) ==
    IF i > Len(devs) THEN [panicked |-> FALSE, gpus |-> acc]
    ELSE LET r == ProbeDevice(devs[i], i, checks)
         IN  IF r.kind = "panic" THEN [panicked |-> TRUE, gpus |-> acc]
             ELSE IF r.kind = "skip" THEN ProbeAll(devs, i + 1, acc, checks)
             ELSE ProbeAll(devs, i + 1, Append(acc, r.info), checks)

I32Min == -2147483647 - 1

\* score as i32: the same 32 bits read as two's complement
AsI32(b) ==
    b[1] + 256 * b[2] + 65536 * b[3]
        + 16777216 * (IF b[4] >= 128 THEN b[4] - 256 ELSE b[4])

\* -(gpu.performance_score as i32); negating i32::MIN wraps to i32::MIN in a
\* release build (and panics in a debug build, see SortByKey)
SortKey(g) ==
    LET v == AsI32(g.performance_score)
    IN  IF v = I32Min THEN I32Min ELSE 0 - v

RECURSIVE InsertByKey(_, _)
InsertByKey(sorted, g) ==
    IF sorted = <<>> THEN <<g>>
    ELSE LET last == sorted[Len(sorted)]
         IN  IF SortKey(last) <= SortKey(g) THEN Append(sorted, g)
             ELSE Append(InsertByKey(SubSeq(sorted, 1, Len(sorted) - 1), g), last)

RECURSIVE StableSort(_, _)
StableSort(sorted, rest) ==
    IF rest = <<>> THEN sorted
    ELSE StableSort(InsertByKey(sorted, rest[1]), Tail(rest))

\* gpus.sort_by_key(|gpu| -(gpu.performance_score as i32)): a stable ascending
\* sort; the key closure runs only when there is something to compare
SortByKey(list, checks) ==
    IF Len(list) < 2 THEN [panicked |-> FALSE, gpus |-> list]
    ELSE IF checks /\ \E k \in 1..Len(list) : AsI32(list[k].performance_score) = I32Min
    THEN [panicked |-> TRUE, gpus |-> list]
    ELSE [panicked |-> FALSE, gpus |-> StableSort(<<>>, list)]

get_gpus(devs, checks) ==
    LET probed == ProbeAll(devs, 1, <<>>, checks)
        sorted == SortByKey(probed.gpus, checks)
    IN  IF probed.panicked
        THEN [panic |-> "attempt to add or multiply with overflow", gpus |-> <<>>]
        ELSE IF Len(probed.gpus) < 1
        THEN [panic |-> "Could not find any usable Vulkan devices", gpus |-> <<>>]
        ELSE IF sorted.panicked
        THEN [panic |-> "attempt to negate with overflow", gpus |-> <<>>]
        ELSE [panic |-> "", gpus |-> sorted.gpus]

-----------------------------------------------------------------------------
(* platform::video::State *)

WindowSizes == {<<1280, 720>>, <<1920, 1080>>}

\* State::init on a 1920 x 1080 screen: height = 1080 / 1.5, width = height * 16 / 9
VideoInit ==
    [width |-> (720 * 16) \div 9, height |-> 720,
     resized |-> FALSE, focused |-> FALSE, closed |-> FALSE]

ConfigureNotify(size) ==
    [type |-> "ConfigureNotify", width |-> size[1], height |-> size[2], atom |-> ""]

\* State::update: one polled event applied to the video state
update(v, ev) ==
    IF ev.type = "ConfigureNotify"
    THEN IF ev.width # v.width \/ ev.height # v.height
         THEN [v EXCEPT !.resized = TRUE, !.width = ev.width, !.height = ev.height]
         ELSE v
    ELSE IF ev.type = "FocusIn" THEN [v EXCEPT !.focused = TRUE]
    ELSE IF ev.type = "FocusOut" THEN [v EXCEPT !.focused = FALSE]
    ELSE IF ev.type = "ClientMessage32"
    THEN [v EXCEPT !.closed = (ev.atom = "WM_DELETE_WINDOW")]
    ELSE v

get_size(v) == <<v.width, v.height>>

\* State::update returns !self.closed
update_returns(v, ev) == ~update(v, ev).closed

\* State::resized: the flag is returned and cleared
resized_peek(v) == [video |-> v, ret |-> v.resized]

resized(v) == [video |-> [v EXCEPT !.resized = FALSE], ret |-> v.resized]

ClientMessage32(atom) == [type |-> "ClientMessage32", width |-> 0, height |-> 0, atom |-> atom]

Event(type) == [type |-> type, width |-> 0, height |-> 0, atom |-> ""]

-----------------------------------------------------------------------------
(* Vulkan objects.  A handle names the object's kind, the swapchain          *)
(* generation it was created in and its index there; an image view also     *)
(* carries the index of the image it was created for, an image or swapchain *)
(* the extent it was created with.                                          *)

FRAME_COUNT == 3

Obj(kind, gen, idx) ==
    [kind |-> kind, gen |-> gen, idx |-> idx, image |-> 0, extent |-> <<0, 0>>]

Null == Obj("null", 0, 0)

Call(name, obj) == [call |-> name, obj |-> obj]

DestroyCalls ==
    {"destroy_image_view", "destroy_image", "destroy_swapchain", "destroy_buffer",
     "destroy_descriptor_pool", "destroy_descriptor_set_layout", "destroy_semaphore",
     "destroy_fence", "destroy_command_pool", "destroy_device", "destroy_surface",
     "destroy_instance", "vmaDestroyAllocator"}

\* the handles a sequence of calls destroys
Destroyed(cs) == {cs[i].obj : i \in {j \in 1..Len(cs) : cs[j].call \in DestroyCalls}}

-----------------------------------------------------------------------------
(* rendersystem::vulkan::State: the helpers of init, recreate and shutdown *)

\* create_device: the logical device and queue 0 of the graphics and compute families
create_device(g) ==
    [device         |-> Obj("Device", 0, 0),
     graphics_queue |-> Obj("Queue", 0, g.graphics_family_index),
     compute_queue  |-> Obj("Queue", 0, g.compute_family_index)]

\* create_fences: FRAME_COUNT fences, created with FenceCreateFlags::SIGNALED
create_fences_unsignaled ==
    [fences   |-> [i \in 1..FRAME_COUNT |-> Obj("Fence", 0, i - 1)],
     signaled |-> {}]

create_fences ==
    [fences   |-> [i \in 1..FRAME_COUNT |-> Obj("Fence", 0, i - 1)],
     signaled |-> {Obj("Fence", 0, i - 1) : i \in 1..FRAME_COUNT}]

create_semaphores_shared ==
    [acquire  |-> [i \in 1..FRAME_COUNT |-> Obj("Semaphore", 0, i - 1)],
     complete |-> [i \in 1..FRAME_COUNT |-> Obj("Semaphore", 0, i - 1)]]

\* create_semaphores: FRAME_COUNT acquire and FRAME_COUNT render-complete semaphores
create_semaphores ==
    [acquire  |-> [i \in 1..FRAME_COUNT |-> Obj("Semaphore", 0, 2 * (i - 1))],
     complete |-> [i \in 1..FRAME_COUNT |-> Obj("Semaphore", 0, 2 * (i - 1) + 1)]]

choose_surface_format_first(g) ==
    IF Len(g.surface_formats) = 1 /\ g.surface_formats[1].format = "UNDEFINED"
    THEN SurfaceFormat("B8G8R8A8_UNORM", "SRGB_NONLINEAR")
    ELSE g.surface_formats[1]

choose_surface_format(g) ==
    IF Len(g.surface_formats) = 1 /\ g.surface_formats[1].format = "UNDEFINED"
    THEN SurfaceFormat("B8G8R8A8_UNORM", "SRGB_NONLINEAR")
    ELSE LET hits == {i \in 1..Len(g.surface_formats) :
                        /\ g.surface_formats[i].format = "B8G8R8A8_UNORM"
                        /\ g.surface_formats[i].color_space = "SRGB_NONLINEAR"}
         IN  IF hits # {} THEN g.surface_formats[Min(hits)]
             ELSE g.surface_formats[1]

choose_present_mode_listed(g) ==
    IF \E i \in 1..Len(g.present_modes) : g.present_modes[i] = "MAILBOX"
    THEN "MAILBOX"
    ELSE g.present_modes[1]

choose_present_mode(g) ==
    IF \E i \in 1..Len(g.present_modes) : g.present_modes[i] = "MAILBOX"
    THEN "MAILBOX"
    ELSE "FIFO"

\* Image::choose_fmt: the first of `formats` whose features for `tiling`
\* contain every required one, or UNDEFINED
choose_fmt_ignores_tiling(g, formats, tiling, required_features) ==
    LET supports(f) ==
            required_features \subseteq g.format_props[f].optimal_tiling_features
        hits == {i \in 1..Len(formats) : supports(formats[i])}
    IN  IF hits # {} THEN formats[Min(hits)] ELSE "UNDEFINED"

choose_fmt(g, formats, tiling, required_features) ==
    LET supports(f) ==
            IF tiling = "LINEAR"
            THEN required_features \subseteq g.format_props[f].linear_tiling_features
            ELSE IF tiling = "OPTIMAL"
            THEN required_features \subseteq g.format_props[f].optimal_tiling_features
            ELSE FALSE
        hits == {i \in 1..Len(formats) : supports(formats[i])}
    IN  IF hits # {} THEN formats[Min(hits)] ELSE "UNDEFINED"

\* create_swapchain: a swapchain of n_images >= min_image_count = FRAME_COUNT
\* images and FRAME_COUNT views, view i for images[i]
create_swapchain_one_image(image_extent, n_images, gen) ==
    LET sc     == [Obj("SwapchainKHR", gen, 0) EXCEPT !.extent = image_extent]
        images == [i \in 1..n_images |->
                      [Obj("SwapchainImage", gen, i - 1) EXCEPT !.extent = image_extent]]
        views  == [i \in 1..FRAME_COUNT |->
                      [Obj("SwapchainImageView", gen, i - 1) EXCEPT !.image = images[1].idx]]
    IN  [swapchain |-> sc, images |-> images, views |-> views,
         calls |-> <<Call("create_swapchain", sc), Call("get_swapchain_images", sc)>>
                   \o [i \in 1..FRAME_COUNT |-> Call("create_image_view", views[i])]]

create_swapchain(image_extent, n_images, gen) ==
    LET sc     == [Obj("SwapchainKHR", gen, 0) EXCEPT !.extent = image_extent]
        images == [i \in 1..n_images |->
                      [Obj("SwapchainImage", gen, i - 1) EXCEPT !.extent = image_extent]]
        views  == [i \in 1..FRAME_COUNT |->
                      [Obj("SwapchainImageView", gen, i - 1) EXCEPT !.image = images[i].idx]]
    IN  [swapchain |-> sc, images |-> images, views |-> views,
         calls |-> <<Call("create_swapchain", sc), Call("get_swapchain_images", sc)>>
                   \o [i \in 1..FRAME_COUNT |-> Call("create_image_view", views[i])]]

\* destroy_swapchain: every view, then the swapchain
destroy_swapchain_first(old_swapchain, old_views) ==
    <<Call("destroy_swapchain", old_swapchain)>>
    \o [i \in 1..Len(old_views) |-> Call("destroy_image_view", old_views[i])]

destroy_swapchain(old_swapchain, old_views) ==
    [i \in 1..Len(old_views) |-> Call("destroy_image_view", old_views[i])]
    \o <<Call("destroy_swapchain", old_swapchain)>>

\* create_render_targets: the depth image, sized by video::get_size(), in the
\* first supported of D32_SFLOAT_S8_UINT, D24_UNORM_S8_UINT; panics when neither is
create_render_targets(g, size, gen) ==
    LET depth_format == choose_fmt(g, <<"D32_SFLOAT_S8_UINT", "D24_UNORM_S8_UINT">>,
                                   "OPTIMAL", {"DEPTH_STENCIL_ATTACHMENT"})
        image == [handle     |-> [Obj("DepthImage", gen, 0) EXCEPT !.extent = size],
                  allocation |-> Obj("Allocation", gen, 0),
                  view       |-> Obj("DepthImageView", gen, 0),
                  format     |-> depth_format]
    IN  IF depth_format = "UNDEFINED"
        THEN [panic |-> "No supported depth formats found", depth_image |-> image,
              calls |-> <<>>]
        ELSE [panic |-> "", depth_image |-> image,
              calls |-> <<Call("create_image", image.handle),
                          Call("create_image_view", image.view)>>]

\* destroy_render_targets -> Image::destroy: the view, then the image
destroy_render_targets(old_depth) ==
    <<Call("destroy_image_view", old_depth.view),
      Call("destroy_image", old_depth.handle)>>

allocate_uniform_buffers == [i \in 1..3 |-> Obj("Buffer", 0, i - 1)]

NoImage == [handle |-> Null, allocation |-> Null, view |-> Null, format |-> "UNDEFINED"]

\* set_gpu on a State with the fields self_gpus, self_gpu
set_gpu_returns_new(self_gpus, self_gpu, gpu_idx) ==
    [gpu |-> IF gpu_idx < Len(self_gpus) THEN gpu_idx ELSE self_gpu,
     ret |-> IF gpu_idx < Len(self_gpus) THEN gpu_idx ELSE self_gpu]

set_gpu_unchecked(self_gpus, self_gpu, gpu_idx) ==
    [gpu |-> gpu_idx,
     ret |-> self_gpu]

set_gpu(self_gpus, self_gpu, gpu_idx) ==
    [gpu |-> IF gpu_idx < Len(self_gpus) THEN gpu_idx ELSE self_gpu,
     ret |-> self_gpu]

\* recreate_swapchain(&mut self, swapchain, swapchain_views, depth_image) with
\* the driver returning n_images images
recreate_swapchain(old_swapchain, old_views, old_depth, n_images) ==
    LET sc == create_swapchain(swapchain_extent, n_images, generation + 1)
        rt == create_render_targets(gpus[gpu + 1], get_size(video), generation + 1)
    IN  [panic       |-> rt.panic,
         swapchain   |-> sc.swapchain,
         images      |-> sc.images,
         views       |-> sc.views,
         depth_image |-> rt.depth_image,
         calls       |-> destroy_render_targets(old_depth)
                         \o destroy_swapchain(old_swapchain, old_views)
                         \o sc.calls \o rt.calls]

\* shutdown(mut self): the calls in program order; the allocator is a field no
\* statement destroys, so it is dropped when shutdown returns
shutdown_calls ==
    [i \in 1..(2 * Len(uniform_buffers)) |->
        IF i % 2 = 1 THEN Call("unmap_memory", uniform_buffers[(i + 1) \div 2])
                     ELSE Call("destroy_buffer", uniform_buffers[i \div 2])]
    \o <<Call("destroy_descriptor_pool", descriptor_pool),
         Call("destroy_descriptor_set_layout", descriptor_layout)>>
    \o destroy_render_targets(depth_image)
    \o destroy_swapchain(swapchain, swapchain_views)
    \o [i \in 1..Len(render_complete_semaphores) |->
           Call("destroy_semaphore", render_complete_semaphores[i])]
    \o [i \in 1..Len(fences) |-> Call("destroy_fence", fences[i])]
    \o [i \in 1..Len(acquire_semaphores) |->
           Call("destroy_semaphore", acquire_semaphores[i])]
    \o <<Call("destroy_command_pool", transfer_pool),
         Call("destroy_command_pool", command_pool),
         Call("destroy_device", device),
         Call("destroy_surface", surface),
         Call("destroy_instance", instance),
         Call("vmaDestroyAllocator", allocator)>>

-----------------------------------------------------------------------------
(* Buffer::copy and Image::new *)

\* Buffer::copy of a source buffer of `size` bytes, as the n-th caller that asks
\* the driver for handles.  `fail` names the first vulkan_check! that fails
\* ("none" when every call succeeds); a failed call panics.
\* allocate_command_buffers is asked for command_buffer_count = FRAME_COUNT
\* buffers and element [0] is used; `calls` lists the allocation once for each
\* handle it returns, and only the calls that succeeded.
Buffer_copy(size, n, fail) ==
    LET bufs            == [i \in 1..FRAME_COUNT |-> Obj("TransferCommandBuffer", n, i - 1)]
        transfer_buffer == bufs[1]
        allocate        == [i \in 1..FRAME_COUNT |-> Call("allocate_command_buffers", bufs[i])]
        full == allocate
                \o <<Call("begin_command_buffer(ONE_TIME_SUBMIT)", transfer_buffer),
                     Call("cmd_copy_buffer", transfer_buffer),
                     Call("end_command_buffer", transfer_buffer),
                     Call("queue_submit", transfer_buffer),
                     Call("queue_wait_idle", graphics_queue),
                     Call("free_command_buffers", transfer_buffer)>>
        done == CASE fail = "allocate" -> 0
                  [] fail = "begin"    -> FRAME_COUNT
                  [] fail = "end"      -> FRAME_COUNT + 2
                  [] fail = "submit"   -> FRAME_COUNT + 3
                  [] fail = "wait"     -> FRAME_COUNT + 4
                  [] OTHER             -> Len(full)
    IN  [panic     |-> IF fail = "none" THEN "" ELSE "Vulkan call failed",
         calls     |-> SubSeq(full, 1, done),
         allocated |-> IF fail = "allocate" THEN {}
                       ELSE {bufs[i] : i \in 1..FRAME_COUNT},
         freed     |-> IF fail = "none" THEN {transfer_buffer} ELSE {},
         \* BufferCopy { size: self.size, ..Default::default() }
         region    |-> IF done >= FRAME_COUNT + 2 THEN size ELSE 0]

\* vk::ImageCreateInfo and vk::ImageViewCreateInfo, as far as Image::new writes them
ImageCreateInfo(format) == [format |-> format]
ImageViewCreateInfo(image, format) == [image |-> image, format |-> format]

\* Image::new as the n-th caller that asks the driver for handles; image_res and
\* view_res are the vk::Result of create_image and of create_image_view
Image_new_destroys_on_view_error(format, create_info, view_info, n, image_res, view_res) ==
    LET ci         == [create_info EXCEPT !.format = format]
        handle     == Obj("Image", n, 0)
        allocation == Obj("Allocation", n, 0)
        vi         == [view_info EXCEPT !.image = handle, !.format = format]
        view       == Obj("ImageView", n, 0)
    IN  IF image_res # "SUCCESS"
        THEN [ok |-> FALSE, err |-> image_res, image |-> NoImage,
              create_info |-> ci, view_info |-> view_info,
              created |-> {}, calls |-> <<>>]
        ELSE IF view_res # "SUCCESS"
        THEN [ok |-> FALSE, err |-> view_res, image |-> NoImage,
              create_info |-> ci, view_info |-> vi,
              created |-> {},
              calls |-> <<Call("create_image", handle), Call("destroy_image", handle)>>]
        ELSE [ok |-> TRUE, err |-> "SUCCESS",
              image |-> [handle |-> handle, allocation |-> allocation,
                         view |-> view, format |-> format],
              create_info |-> ci, view_info |-> vi,
              created |-> {handle, allocation, view},
              calls |-> <<Call("create_image", handle), Call("create_image_view", view)>>]

Image_new(format, create_info, view_info, n, image_res, view_res) ==
    LET ci         == [create_info EXCEPT !.format = format]
        handle     == Obj("Image", n, 0)
        allocation == Obj("Allocation", n, 0)
        vi         == [view_info EXCEPT !.image = handle, !.format = format]
        view       == Obj("ImageView", n, 0)
    IN  IF image_res # "SUCCESS"
        THEN [ok |-> FALSE, err |-> image_res, image |-> NoImage,
              create_info |-> ci, view_info |-> view_info,
              created |-> {}, calls |-> <<>>]
        ELSE IF view_res # "SUCCESS"
        THEN [ok |-> FALSE, err |-> view_res, image |-> NoImage,
              create_info |-> ci, view_info |-> vi,
              created |-> {handle, allocation},
              calls |-> <<Call("create_image", handle)>>]
        ELSE [ok |-> TRUE, err |-> "SUCCESS",
              image |-> [handle |-> handle, allocation |-> allocation,
                         view |-> view, format |-> format],
              create_info |-> ci, view_info |-> vi,
              created |-> {handle, allocation, view},
              calls |-> <<Call("create_image", handle), Call("create_image_view", view)>>]

\* what the model keeps of the last call of a helper
CopyCall(size, fail, region) == [size |-> size, fail |-> fail, region |-> region]

ImageCall(format, image_res, view_res, r) ==
    [format |-> format, image_res |-> image_res, view_res |-> view_res,
     ok |-> r.ok, err |-> r.err, image |-> r.image,
     create_info |-> r.create_info, view_info |-> r.view_info]

FmtCall(formats, tiling, required_features, fmt) ==
    [formats |-> formats, tiling |-> tiling, required_features |-> required_features,
     ret |-> fmt]

NoEvent == [type |-> "none", width |-> 0, height |-> 0, atom |-> ""]

\* the event the last update() polled, what that update() returned (TRUE before
\* the first) and what the last resized() returned (FALSE before the first)
VideoCall(ev, returned, was_resized) ==
    [event |-> ev, ret |-> returned, resized |-> was_resized]

-----------------------------------------------------------------------------
(* The state before State::init *)

Op(name, arg) == [op |-> name, arg |-> arg]

\* Result<ThingHolder<_>, _> of the three constructors
Done(arc) == [ok |-> TRUE, val |-> arc, err |-> ""]
Failed(err) == [ok |-> FALSE, val |-> 0, err |-> err]

\* a call of Shader::new, Material::new or Model::new: the name to register,
\* the name to look up, the meshes, and how the reads and the creation end
Request(name, ref, meshes, vertex_ok, fragment_ok, created) ==
    [name |-> name, ref |-> ref, meshes |-> meshes,
     vertex_ok |-> vertex_ok, fragment_ok |-> fragment_ok, created |-> created]

\* the keys the asset layer uses in the three registries
ShaderNames == {"S", "T"}
MaterialNames == {"M"}
ModelNames == {"A"}

NotInitialized ==
    /\ pc = "start"
    /\ panic_msg = ""
    /\ last_op = Op("", 0)
    /\ ret = 0
    /\ calls = <<>>
    /\ video = VideoInit
    /\ instance = Null /\ device = Null /\ surface = Null /\ allocator = Null
    /\ gpu = 0
    /\ gpus = <<>>
    /\ graphics_queue = Null /\ compute_queue = Null
    /\ command_pool = Null /\ transfer_pool = Null /\ command_buffers = <<>>
    /\ fences = <<>> /\ acquire_semaphores = <<>> /\ render_complete_semaphores = <<>>
    /\ swapchain = Null /\ swapchain_images = <<>> /\ swapchain_views = <<>>
    /\ surface_format = SurfaceFormat("UNDEFINED", "SRGB_NONLINEAR")
    /\ present_mode = "FIFO"
    /\ swapchain_extent = <<0, 0>>
    /\ depth_image = NoImage
    /\ descriptor_layout = Null /\ descriptor_pool = Null
    /\ uniform_buffers = <<>>
    /\ generation = 0
    /\ signaled = {}
    /\ destroyed = {}
    /\ loaded = FALSE
    /\ in_frame = FALSE
    /\ backend_data = <<>>
    /\ shaders = [n \in ShaderNames |-> 0]
    /\ materials = [n \in MaterialNames |-> 0]
    /\ models = [n \in ModelNames |-> 0]
    /\ arcs = <<>>
    /\ result = Done(0)
    /\ request = Request("", "", "none", FALSE, FALSE, FALSE)
    /\ transfer_buffers = {}
    /\ live_images = {}
    /\ handles = 0
    /\ copy_call = CopyCall(0, "none", 0)
    /\ image_call = ImageCall("UNDEFINED", "SUCCESS", "SUCCESS",
                              [ok |-> FALSE, err |-> "SUCCESS", image |-> NoImage,
                               create_info |-> ImageCreateInfo("UNDEFINED"),
                               view_info |-> ImageViewCreateInfo(Null, "UNDEFINED")])
    /\ fmt_call = FmtCall(<<>>, "OPTIMAL", {}, "UNDEFINED")
    /\ video_call = VideoCall(NoEvent, TRUE, FALSE)

-----------------------------------------------------------------------------
(* Device selection on its own: the driver's device list is the input *)

InitGpus ==
    /\ overflow_checks \in BOOLEAN
    /\ devices \in DeviceLists
    /\ NotInitialized

GetGpus ==
    /\ pc = "start"
    /\ LET r == get_gpus(devices, overflow_checks)
       IN  /\ pc' = IF r.panic = "" THEN "returned" ELSE "panicked"
           /\ panic_msg' = r.panic
           /\ gpus' = r.gpus
    /\ last_op' = Op("get_gpus", 0)
    /\ UNCHANGED <<overflow_checks, devices, gpu, video, backend_vars, facade_vars, call_vars>>

NextGpus == GetGpus

SpecGpus == InitGpus /\ [][NextGpus]_vars

-----------------------------------------------------------------------------
(* The backend's life: init, window events, set_gpu, recreate_swapchain,    *)
(* begin_cmds, present, shutdown                                            *)

\* 512 GiB discrete GPU whose score exceeds u32
BigScore == ScoreInputs(U64(549, 755813888), U32(16384), U32(16384), "DISCRETE_GPU")

IntegratedScore == ScoreInputs(U64(2, 147483648), U32(16384), U32(16384), "INTEGRATED_GPU")

\* A usable integrated GPU that supports only D24_UNORM_S8_UINT, and one that
\* supports no depth format
OnlyD24 ==
    Device(<<QueueFamily(1, {"GRAPHICS"}), QueueFamily(1, {"COMPUTE"})>>,
           Ok(<<"VK_KHR_swapchain">>), Ok("caps"), Ok(<<RGBA>>), Ok(<<"MAILBOX", "FIFO">>),
           IntegratedScore, {"D24_UNORM_S8_UINT"})

NoDepth ==
    Device(<<QueueFamily(1, GC)>>, Ok(<<"VK_KHR_swapchain">>), Ok("caps"),
           Ok(<<SurfaceFormat("UNDEFINED", "SRGB_NONLINEAR")>>), Ok(<<"FIFO">>),
           ScoreInputs(U64(1, 0), U32(4096), U32(4096), "CPU"), {})

NoPresentMode ==
    Device(<<QueueFamily(1, GC)>>, Ok(<<"VK_KHR_swapchain">>), Ok("caps"),
           Ok(<<BGRA>>), Ok(<<>>), TypicalScore, DepthFormats)

\* 300 GB virtual GPU: score 3 002 684 350 >= 2^31, no overflow
HugeVirtual == ScoreInputs(U64(300, 0), U32(16384), U32(16384), "VIRTUAL_GPU")

BackendDeviceLists ==
    { <<>>,
      <<Usable(TypicalScore), Usable(HugeVirtual)>>,
      <<NoPresentMode, Usable(TypicalScore)>>,
      <<OnlyD24, Usable(TypicalScore)>>,
      <<NoDepth, Usable(BigScore)>> }

Init ==
    /\ overflow_checks \in BOOLEAN
    /\ devices \in BackendDeviceLists
    /\ NotInitialized

ImageCounts == FRAME_COUNT..(FRAME_COUNT + MaxExtraImages)

Panic(msg) ==
    /\ pc' = "panicked"
    /\ panic_msg' = msg

\* platform::video::State::update with a ConfigureNotify event
VideoUpdate ==
    /\ pc \in {"start", "ready"}
    /\ \E size \in WindowSizes : video' = update(video, ConfigureNotify(size))
    /\ last_op' = Op("update", 0)
    /\ UNCHANGED <<gpu_vars, backend_vars, facade_vars, call_vars>>

\* State::init
StateInit ==
    /\ pc = "start"
    /\ last_op' = Op("init", 0)
    /\ UNCHANGED <<facade_vars, call_vars>>
    /\ \E n_images \in ImageCounts, vk_ok \in BOOLEAN :
        LET found == get_gpus(devices, overflow_checks)
            g     == found.gpus[1]
            dev   == create_device(g)
            fs    == create_fences
            sems  == create_semaphores
            size  == get_size(video)
            sc    == create_swapchain(size, n_images, 1)
            rt    == create_render_targets(g, size, 1)
        IN  IF found.panic # ""
            THEN /\ Panic(found.panic)
                 /\ UNCHANGED <<overflow_checks, devices, gpus, gpu, video, backend_vars>>
            ELSE IF ~vk_ok
            THEN /\ Panic("Vulkan call failed")
                 /\ UNCHANGED <<overflow_checks, devices, gpus, gpu, video, backend_vars>>
            ELSE IF rt.panic # ""
            THEN /\ Panic(rt.panic)
                 /\ UNCHANGED <<overflow_checks, devices, gpus, gpu, video, backend_vars>>
            ELSE /\ pc' = "ready"
                 /\ panic_msg' = ""
                 /\ instance' = Obj("Instance", 0, 0)
                 /\ surface' = Obj("SurfaceKHR", 0, 0)
                 /\ gpus' = found.gpus
                 /\ device' = dev.device
                 /\ graphics_queue' = dev.graphics_queue
                 /\ compute_queue' = dev.compute_queue
                 /\ command_pool' = Obj("CommandPool", 0, 0)
                 /\ transfer_pool' = Obj("CommandPool", 0, 1)
                 /\ command_buffers' = [i \in 1..FRAME_COUNT |-> Obj("CommandBuffer", 0, i - 1)]
                 /\ allocator' = Obj("Allocator", 0, 0)
                 /\ fences' = fs.fences
                 /\ signaled' = fs.signaled
                 /\ acquire_semaphores' = sems.acquire
                 /\ render_complete_semaphores' = sems.complete
                 /\ surface_format' = choose_surface_format(g)
                 /\ present_mode' = choose_present_mode(g)
                 /\ swapchain_extent' = size
                 /\ swapchain' = sc.swapchain
                 /\ swapchain_images' = sc.images
                 /\ swapchain_views' = sc.views
                 /\ depth_image' = rt.depth_image
                 /\ descriptor_layout' = Obj("DescriptorSetLayout", 0, 0)
                 /\ descriptor_pool' = Obj("DescriptorPool", 0, 0)
                 /\ uniform_buffers' = allocate_uniform_buffers
                 /\ gpu' = set_gpu(found.gpus, 0, 0).gpu
                 /\ ret' = set_gpu(found.gpus, 0, 0).ret
                 /\ generation' = 1
                 /\ calls' = sc.calls \o rt.calls
                 /\ UNCHANGED <<overflow_checks, devices, video, destroyed>>

\* State::set_gpu(gpu_idx)
SetGpu ==
    /\ pc = "ready"
    /\ \E gpu_idx \in 0..MaxGpuArg :
        /\ gpu' = set_gpu(gpus, gpu, gpu_idx).gpu
        /\ ret' = set_gpu(gpus, gpu, gpu_idx).ret
        /\ last_op' = Op("set_gpu", gpu_idx)
    /\ calls' = <<>>
    /\ UNCHANGED <<overflow_checks, devices, pc, panic_msg, gpus, video,
                   init_vars, swapchain_vars, destroyed, facade_vars, call_vars>>

\* State::recreate_swapchain(self.swapchain, self.swapchain_views, self.depth_image)
RecreateSwapchain ==
    /\ pc = "ready"
    /\ generation <= MaxRecreate
    /\ last_op' = Op("recreate_swapchain", 0)
    /\ \E n_images \in ImageCounts, vk_ok \in BOOLEAN :
        LET r   == recreate_swapchain(swapchain, swapchain_views, depth_image, n_images)
            old == destroy_render_targets(depth_image)
                   \o destroy_swapchain(swapchain, swapchain_views)
        IN  IF ~vk_ok
            THEN /\ Panic("Vulkan call failed")
                 /\ calls' = old
                 /\ destroyed' = destroyed \cup Destroyed(old)
                 /\ UNCHANGED swapchain_vars
            ELSE /\ swapchain' = r.swapchain
                 /\ swapchain_images' = r.images
                 /\ swapchain_views' = r.views
                 /\ generation' = generation + 1
                 /\ calls' = r.calls
                 /\ destroyed' = destroyed \cup Destroyed(r.calls)
                 /\ IF r.panic # ""
                    THEN Panic(r.panic) /\ UNCHANGED depth_image
                    ELSE /\ depth_image' = r.depth_image
                         /\ UNCHANGED <<pc, panic_msg>>
    /\ UNCHANGED <<overflow_checks, devices, gpus, gpu, video, init_vars, ret, facade_vars, call_vars>>

\* State::begin_cmds and State::present: both bodies are empty
BeginCmds ==
    /\ pc = "ready"
    /\ last_op' = Op("begin_cmds", 0)
    /\ calls' = <<>>
    /\ UNCHANGED <<gpu_vars, video, init_vars, swapchain_vars, destroyed, ret, facade_vars, call_vars>>

Present ==
    /\ pc = "ready"
    /\ last_op' = Op("present", 0)
    /\ calls' = <<>>
    /\ UNCHANGED <<gpu_vars, video, init_vars, swapchain_vars, destroyed, ret, facade_vars, call_vars>>

\* State::shutdown(self)
Shutdown ==
    /\ pc = "ready"
    /\ pc' = "shutdown"
    /\ last_op' = Op("shutdown", 0)
    /\ calls' = shutdown_calls
    /\ destroyed' = destroyed \cup Destroyed(shutdown_calls)
    /\ uniform_buffers' = <<>>
    /\ UNCHANGED <<overflow_checks, devices, panic_msg, gpus, gpu, video, ret,
                   instance, device, surface, allocator, graphics_queue, compute_queue,
                   command_pool, transfer_pool, command_buffers,
                   fences, acquire_semaphores, render_complete_semaphores,
                   surface_format, present_mode, swapchain_extent,
                   descriptor_layout, descriptor_pool, signaled, swapchain_vars,
                   facade_vars, call_vars>>

Next ==
    \/ VideoUpdate
    \/ StateInit
    \/ SetGpu
    \/ RecreateSwapchain
    \/ BeginCmds
    \/ Present
    \/ Shutdown

Spec == Init /\ [][Next]_vars

-----------------------------------------------------------------------------
(* rendersystem::State (mod.rs): the facade over the backend and the        *)
(* shader, material and model registries                                    *)

\* the most Arc allocations and the most backend data objects a run makes
MaxArcs == 3

\* render_impl::State::is_initialized, is_loaded, is_in_frame: what the facade
\* and Model::render ask the backend
is_initialized == pc = "ready"
is_loaded == loaded
is_in_frame == in_frame

\* render_impl::State::load_resources and unload_resources: the new is_loaded
backend_load_resources == TRUE
backend_unload_resources == FALSE

\* rendersystem::State::load_resources
load_resources_unguarded ==
    [loaded |-> backend_load_resources, calls |-> <<Call("load_resources", Null)>>]

load_resources ==
    IF is_initialized /\ ~is_loaded
    THEN [loaded |-> backend_load_resources, calls |-> <<Call("load_resources", Null)>>]
    ELSE [loaded |-> loaded, calls |-> <<>>]

\* rendersystem::State::unload_resources
unload_resources_unguarded ==
    [loaded |-> backend_unload_resources, calls |-> <<Call("unload_resources", Null)>>]

unload_resources ==
    IF is_initialized /\ is_loaded
    THEN [loaded |-> backend_unload_resources, calls |-> <<Call("unload_resources", Null)>>]
    ELSE [loaded |-> loaded, calls |-> <<>>]

\* rendersystem::State::shutdown: unload_resources, then backend.shutdown
render_shutdown_no_unload ==
    [loaded |-> loaded, calls |-> shutdown_calls]

render_shutdown ==
    [loaded |-> unload_resources.loaded,
     calls  |-> unload_resources.calls \o shutdown_calls]

\* <Model as Renderable>::render: the backend calls it issues for the model `model`
Model_render_unguarded(model) == <<Call("render_model", Obj("Model", 0, model))>>

Model_render(model) ==
    IF is_in_frame THEN <<Call("render_model", Obj("Model", 0, model))>> ELSE <<>>

\* One Arc allocation.  `ref` is the arc it holds a clone of (a material its
\* shader, a model its material, 0 for a shader), `handle` its backend data,
\* `strong` the owners inside the render system: registry entries and the
\* objects referring to it (handles returned to callers come on top).
Arc(kind, name, ref, handle) ==
    [kind |-> kind, name |-> name, ref |-> ref, handle |-> handle, strong |-> 0]

\* Arc::clone
Retain(as, i) == [as EXCEPT ![i].strong = @ + 1]

\* Drop of one owner of arc i: the last owner gone, the object is dropped and
\* with it the clone it holds
RECURSIVE Release(_, _)
Release(as, i) ==
    IF i = 0 THEN as
    ELSE LET n  == as[i].strong - 1
             bs == [as EXCEPT ![i].strong = n]
         IN  IF n = 0 THEN Release(bs, as[i].ref) ELSE bs

\* HashMap::insert(name, arc.clone()): the entry it replaces is dropped
Insert(registry, as, name, i) ==
    [registry |-> [registry EXCEPT ![name] = i],
     arcs     |-> Release(Retain(as, i), registry[name])]

\* render_impl::ShaderData::new and ModelData::new
ShaderData_new(name, ok) ==
    IF ok THEN [result |-> Done(Len(backend_data) + 1),
                backend_data |-> Append(backend_data, [kind |-> "ShaderData", name |-> name])]
    ELSE [result |-> Failed("Backend"), backend_data |-> backend_data]

ModelData_new(name) ==
    [handle |-> Len(backend_data) + 1,
     backend_data |-> Append(backend_data, [kind |-> "ModelData", name |-> name])]


\* Shader::new(state, name): the reads of the two binaries and the backend
\* creation succeed or fail as vertex_ok, fragment_ok and created say
Shader_new_always_registers(name, vertex_ok, fragment_ok, created) ==
    LET made == ShaderData_new(name, created)
        i    == Len(arcs) + 1
        ins  == Insert(shaders, Append(arcs, Arc("Shader", name, 0, 0)), name, i)
    IN  [result       |-> IF vertex_ok /\ fragment_ok THEN made.result ELSE Failed("Io"),
         calls        |-> <<Call("fs::read", Obj("vertex binary", 0, 0)), Call("fs::read", Obj("fragment binary", 0, 0)),
                            Call("ShaderData::new", Obj("ShaderData", 0, 0))>>,
         shaders      |-> ins.registry,
         arcs         |-> ins.arcs,
         backend_data |-> made.backend_data]

Shader_new(name, vertex_ok, fragment_ok, created) ==
    LET vertex   == <<Call("fs::read", Obj("vertex binary", 0, 0))>>
        fragment == <<Call("fs::read", Obj("fragment binary", 0, 0))>>
        create   == <<Call("ShaderData::new", Obj("ShaderData", 0, 0))>>
        made     == ShaderData_new(name, created)
        i        == Len(arcs) + 1
        ins      == Insert(shaders,
                           Append(arcs, Arc("Shader", name, 0, made.result.val)), name, i)
        failed(err, cs) ==
            [result |-> err, calls |-> cs, shaders |-> shaders, arcs |-> arcs,
             backend_data |-> backend_data]
    IN  IF ~vertex_ok THEN failed(Failed("Io"), vertex)
        ELSE IF ~fragment_ok THEN failed(Failed("Io"), vertex \o fragment)
        ELSE IF ~made.result.ok THEN failed(made.result, vertex \o fragment \o create)
        ELSE [result       |-> Done(i),
              calls        |-> vertex \o fragment \o create,
              shaders      |-> ins.registry,
              arcs         |-> ins.arcs,
              backend_data |-> made.backend_data]

\* Material::new(state, name, shader)
Material_new_unchecked(name, shader) ==
    LET i   == Len(arcs) + 1
        ins == Insert(materials, Append(arcs, Arc("Material", name, shaders[shader], 0)),
                      name, i)
    IN  [result    |-> IF shaders[shader] = 0 THEN Failed("()") ELSE Done(i),
         materials |-> ins.registry,
         arcs      |-> IF shaders[shader] = 0 THEN ins.arcs
                       ELSE Retain(ins.arcs, shaders[shader])]

Material_new_borrowed(name, shader) ==
    LET i   == Len(arcs) + 1
        ins == Insert(materials, Append(arcs, Arc("Material", name, shaders[shader], 0)),
                      name, i)
    IN  IF shaders[shader] = 0
        THEN [result |-> Failed("()"), materials |-> materials, arcs |-> arcs]
        ELSE [result |-> Done(i), materials |-> ins.registry, arcs |-> ins.arcs]

Material_new(name, shader) ==
    LET i    == Len(arcs) + 1
        held == Retain(Append(arcs, Arc("Material", name, shaders[shader], 0)),
                       shaders[shader])
        ins  == Insert(materials, held, name, i)
    IN  IF shaders[shader] = 0
        THEN [result |-> Failed("()"), materials |-> materials, arcs |-> arcs]
        ELSE [result |-> Done(i), materials |-> ins.registry, arcs |-> ins.arcs]

\* what Model::new is given as `models`: no mesh at all, meshes with positions,
\* normals and texture coordinates, or a mesh lacking normals or coordinates
Meshes == {"none", "complete", "incomplete"}

\* Model::new(state, name, models, material).  The vertex and index vectors
\* are reinterpreted as Vec<u8> with Vec::from_raw_parts and freed with a
\* layout they were not allocated with: `layout_ok` is whether the allocator
\* of the build tolerates that.
Model_new(name, meshes, material, layout_ok) ==
    LET made == ModelData_new(name)
        i    == Len(arcs) + 1
        held == Retain(Append(arcs, Arc("Model", name, materials[material], made.handle)),
                       materials[material])
        ins  == Insert(models, held, name, i)
        stop(msg) ==
            [panic |-> msg, result |-> result, calls |-> <<>>, models |-> models,
             arcs |-> arcs, backend_data |-> backend_data]
    IN  IF meshes = "incomplete"
        THEN stop("assertion failed: !mesh.normals.is_empty() && !mesh.texcoords.is_empty()")
        ELSE IF meshes = "complete" /\ ~layout_ok
        THEN stop("deallocation with a mismatched layout")
        ELSE IF materials[material] = 0
        THEN [panic |-> "", result |-> Failed("()"),
              calls |-> <<Call("ModelData::new", Obj("ModelData", 0, 0))>>,
              models |-> models, arcs |-> arcs, backend_data |-> made.backend_data]
        ELSE [panic |-> "", result |-> Done(i),
              calls |-> <<Call("ModelData::new", Obj("ModelData", 0, 0))>>,
              models |-> ins.registry, arcs |-> ins.arcs,
              backend_data |-> made.backend_data]

\* Drop of rendersystem::State: every registry entry is dropped
RECURSIVE ReleaseAll(_, _)
ReleaseAll(as, held) ==
    IF held = <<>> THEN as ELSE ReleaseAll(Release(as, held[1]), Tail(held))

Entries(registry, names) ==
    LET RECURSIVE list(_)
        list(S) == IF S = {} THEN <<>>
                   ELSE LET n == CHOOSE x \in S : TRUE
                        IN  (IF registry[n] = 0 THEN <<>> ELSE <<registry[n]>>)
                            \o list(S \ {n})
    IN  list(names)

-----------------------------------------------------------------------------
(* The render system's life: State::init, load_resources, unload_resources, *)
(* begin_cmds, present, Model::render, the three constructors, shutdown     *)

\* what the facade's operations leave alone in the backend
backend_fields ==
    <<overflow_checks, devices, gpus, gpu, video, init_vars, swapchain_vars, destroyed, ret>>

InitRender ==
    /\ overflow_checks = TRUE
    /\ devices = <<Usable(TypicalScore)>>
    /\ NotInitialized

\* rendersystem::State::init: the backend's init (the driver returning
\* FRAME_COUNT swapchain images) and three empty registries
RenderInit ==
    /\ StateInit
    /\ pc' = "ready" => Len(swapchain_images') = FRAME_COUNT

\* how the vertex read, the fragment read and the backend creation of one
\* Shader::new end: the first, the second or the third fails, or none
ShaderOutcomes ==
    {<<FALSE, TRUE, TRUE>>, <<TRUE, FALSE, TRUE>>, <<TRUE, TRUE, FALSE>>, <<TRUE, TRUE, TRUE>>}

LoadResources ==
    /\ pc = "ready"
    /\ last_op' = Op("load_resources", 0)
    /\ loaded' = load_resources.loaded
    /\ calls' = load_resources.calls
    /\ UNCHANGED <<pc, panic_msg, backend_fields, in_frame, backend_data,
                   shaders, materials, models, arcs, result, request, call_vars>>

UnloadResources ==
    /\ pc = "ready"
    /\ last_op' = Op("unload_resources", 0)
    /\ loaded' = unload_resources.loaded
    /\ calls' = unload_resources.calls
    /\ UNCHANGED <<pc, panic_msg, backend_fields, in_frame, backend_data,
                   shaders, materials, models, arcs, result, request, call_vars>>

\* Model::render on a model of the registry
ModelRender ==
    /\ pc = "ready"
    /\ \E name \in ModelNames :
        /\ models[name] # 0
        /\ last_op' = Op("render", models[name])
        /\ calls' = Model_render(models[name])
    /\ UNCHANGED <<pc, panic_msg, backend_fields, facade_vars, call_vars>>

ShaderNew ==
    /\ pc = "ready"
    /\ Len(arcs) < MaxArcs /\ Len(backend_data) < MaxArcs
    /\ \E name \in ShaderNames, outcome \in ShaderOutcomes :
        LET vertex_ok   == outcome[1]
            fragment_ok == outcome[2]
            created     == outcome[3]
            r == Shader_new(name, vertex_ok, fragment_ok, created)
        IN  /\ last_op' = Op("Shader::new", 0)
            /\ request' = Request(name, "", "none", vertex_ok, fragment_ok, created)
            /\ result' = r.result
            /\ calls' = r.calls
            /\ shaders' = r.shaders
            /\ arcs' = r.arcs
            /\ backend_data' = r.backend_data
    /\ UNCHANGED <<pc, panic_msg, backend_fields, loaded, in_frame, materials, models,
                   call_vars>>

MaterialNew ==
    /\ pc = "ready"
    /\ Len(arcs) < MaxArcs
    /\ \E name \in MaterialNames, shader \in ShaderNames :
        LET r == Material_new(name, shader)
        IN  /\ last_op' = Op("Material::new", 0)
            /\ request' = Request(name, shader, "none", TRUE, TRUE, TRUE)
            /\ result' = r.result
            /\ materials' = r.materials
            /\ arcs' = r.arcs
    /\ calls' = <<>>
    /\ UNCHANGED <<pc, panic_msg, backend_fields, loaded, in_frame, backend_data,
                   shaders, models, call_vars>>

ModelNew ==
    /\ pc = "ready"
    /\ Len(arcs) < MaxArcs /\ Len(backend_data) < MaxArcs
    /\ \E name \in ModelNames, meshes \in Meshes, material \in MaterialNames,
          layout_ok \in BOOLEAN :
        LET r == Model_new(name, meshes, material, layout_ok)
        IN  /\ last_op' = Op("Model::new", 0)
            /\ request' = Request(name, material, meshes, TRUE, TRUE, TRUE)
            /\ result' = r.result
            /\ calls' = r.calls
            /\ models' = r.models
            /\ arcs' = r.arcs
            /\ backend_data' = r.backend_data
            /\ IF r.panic # "" THEN Panic(r.panic) ELSE UNCHANGED <<pc, panic_msg>>
    /\ UNCHANGED <<backend_fields, loaded, in_frame, shaders, materials, call_vars>>

\* rendersystem::State::shutdown(self)
RenderShutdown ==
    /\ pc = "ready"
    /\ pc' = "shutdown"
    /\ last_op' = Op("render_shutdown", 0)
    /\ loaded' = render_shutdown.loaded
    /\ calls' = render_shutdown.calls
    /\ destroyed' = destroyed \cup Destroyed(render_shutdown.calls)
    /\ uniform_buffers' = <<>>
    /\ shaders' = [n \in ShaderNames |-> 0]
    /\ materials' = [n \in MaterialNames |-> 0]
    /\ models' = [n \in ModelNames |-> 0]
    /\ arcs' = ReleaseAll(arcs, Entries(shaders, ShaderNames)
                                \o Entries(models, ModelNames)
                                \o Entries(materials, MaterialNames))
    /\ UNCHANGED <<overflow_checks, devices, panic_msg, gpus, gpu, video, ret,
                   instance, device, surface, allocator, graphics_queue, compute_queue,
                   command_pool, transfer_pool, command_buffers,
                   fences, acquire_semaphores, render_complete_semaphores,
                   surface_format, present_mode, swapchain_extent,
                   descriptor_layout, descriptor_pool, signaled, swapchain_vars,
                   in_frame, backend_data, result, request, call_vars>>

NextRender ==
    \/ RenderInit
    \/ LoadResources
    \/ UnloadResources
    \/ BeginCmds
    \/ Present
    \/ ModelRender
    \/ ShaderNew
    \/ MaterialNew
    \/ ModelNew
    \/ RenderShutdown

SpecRender == InitRender /\ [][NextRender]_vars

-----------------------------------------------------------------------------
(* Buffer::copy and Image::new on an initialized backend *)

\* Buffer::copy and Image::new run at most this many times together
MaxHandles == 3

\* self.size of the source buffer
CopySizes == {64, 256}

\* the vulkan_check! of Buffer::copy that fails first
CopyFailures == {"none", "allocate", "begin", "end", "submit", "wait"}

ImageFormats == {"D32_SFLOAT_S8_UINT", "R8G8B8A8_UNORM"}

\* source.copy(device, graphics_queue, transfer_pool, fence, destination)
BufferCopy ==
    /\ pc = "ready"
    /\ handles < MaxHandles
    /\ \E size \in CopySizes, fail \in CopyFailures :
        LET r == Buffer_copy(size, handles + 1, fail)
        IN  /\ last_op' = Op("Buffer::copy", 0)
            /\ copy_call' = CopyCall(size, fail, r.region)
            /\ calls' = r.calls
            /\ transfer_buffers' = (transfer_buffers \cup r.allocated) \ r.freed
            /\ IF r.panic # "" THEN Panic(r.panic) ELSE UNCHANGED <<pc, panic_msg>>
    /\ handles' = handles + 1
    /\ UNCHANGED <<backend_fields, facade_vars, live_images, image_call, fmt_call,
                   video_call>>

\* Image::new(device, allocator, format, &mut create_info, &mut view_info, ..)
\* with descriptors whose format field the caller left at a value of its own
ImageNew ==
    /\ pc = "ready"
    /\ handles < MaxHandles
    /\ \E format \in ImageFormats, preset \in {"UNDEFINED", "R8G8B8A8_UNORM"},
          image_res \in {"SUCCESS", "ERROR_OUT_OF_DEVICE_MEMORY"},
          view_res \in {"SUCCESS", "ERROR_OUT_OF_HOST_MEMORY"} :
        LET r == Image_new(format, ImageCreateInfo(preset),
                           ImageViewCreateInfo(Null, preset), handles + 1,
                           image_res, view_res)
        IN  /\ last_op' = Op("Image::new", 0)
            /\ image_call' = ImageCall(format, image_res, view_res, r)
            /\ calls' = r.calls
            /\ live_images' = (live_images \cup r.created) \ Destroyed(r.calls)
    /\ handles' = handles + 1
    /\ UNCHANGED <<pc, panic_msg, backend_fields, facade_vars, transfer_buffers,
                   copy_call, fmt_call, video_call>>

NextAlloc ==
    \/ StateInit
    \/ BufferCopy
    \/ ImageNew

SpecAlloc == InitRender /\ [][NextAlloc]_vars

-----------------------------------------------------------------------------
(* The selection helpers on the candidate get_gpus returns: choose_fmt,      *)
(* choose_surface_format, choose_present_mode, create_render_targets        *)

\* the lists a driver reports, and the candidate list given to choose_fmt,
\* have at most this many entries
MaxFormats == 2

NonEmptySeqs(S) == SeqsUpTo(S, MaxFormats) \ {<<>>}

\* B8G8R8A8_UNORM in another colour space
BGRA_P3 == SurfaceFormat("B8G8R8A8_UNORM", "DISPLAY_P3_NONLINEAR_EXT")

UndefinedFormat == SurfaceFormat("UNDEFINED", "SRGB_NONLINEAR")

SurfaceFormatLists == NonEmptySeqs({BGRA, RGBA, BGRA_P3, UndefinedFormat})

PresentModeLists == NonEmptySeqs({"IMMEDIATE", "MAILBOX", "FIFO", "FIFO_RELAXED"})

Tilings == {"OPTIMAL", "LINEAR", "DRM_FORMAT_MODIFIER_EXT"}

FeatureSets == {{}, {"DEPTH_STENCIL_ATTACHMENT"}, {"DEPTH_STENCIL_ATTACHMENT", "SAMPLED_IMAGE"}}

\* vkGetPhysicalDeviceFormatProperties of the depth formats
FormatPropsSet ==
    [DepthFormats ->
        [linear_tiling_features  : {{}, {"DEPTH_STENCIL_ATTACHMENT"}},
         optimal_tiling_features : FeatureSets \cup {{"SAMPLED_IMAGE"}}]]

\* usable devices that differ in the surface formats, in the present modes or
\* in the format properties they report
ChooseDevices ==
    {[Usable(TypicalScore) EXCEPT !.surface_formats = Ok(l)] : l \in SurfaceFormatLists}
    \cup {[Usable(TypicalScore) EXCEPT !.present_modes = Ok(l)] : l \in PresentModeLists}
    \cup {[Usable(TypicalScore) EXCEPT !.format_props = p] : p \in FormatPropsSet}

InitChoose ==
    /\ overflow_checks = FALSE
    /\ devices \in {<<d>> : d \in ChooseDevices}
    /\ NotInitialized

\* State fields that neither a choose_ helper nor create_render_targets assigns
init_objects ==
    <<instance, device, surface, allocator, graphics_queue, compute_queue,
      command_pool, transfer_pool, command_buffers,
      fences, acquire_semaphores, render_complete_semaphores,
      swapchain_extent, descriptor_layout, descriptor_pool, uniform_buffers, signaled,
      swapchain, swapchain_images, swapchain_views, generation, destroyed, ret>>

\* let surface_format = Self::choose_surface_format(&gpus[gpu])
ChooseSurfaceFormat ==
    /\ pc = "returned"
    /\ pc' = "chosen"
    /\ last_op' = Op("choose_surface_format", 0)
    /\ surface_format' = choose_surface_format(gpus[gpu + 1])
    /\ UNCHANGED <<overflow_checks, devices, panic_msg, gpus, gpu, video, init_objects,
                   present_mode, depth_image, calls, facade_vars, call_vars>>

\* let present_mode = Self::choose_present_mode(&gpus[gpu])
ChoosePresentMode ==
    /\ pc = "returned"
    /\ pc' = "chosen"
    /\ last_op' = Op("choose_present_mode", 0)
    /\ present_mode' = choose_present_mode(gpus[gpu + 1])
    /\ UNCHANGED <<overflow_checks, devices, panic_msg, gpus, gpu, video, init_objects,
                   surface_format, depth_image, calls, facade_vars, call_vars>>

\* Image::choose_fmt(instance, &gpus[gpu], &formats, tiling, required_features)
ChooseFmt ==
    /\ pc = "returned"
    /\ pc' = "chosen"
    /\ last_op' = Op("choose_fmt", 0)
    /\ \E formats \in SeqsUpTo(DepthFormats, MaxFormats), tiling \in Tilings,
          required_features \in FeatureSets :
        fmt_call' = FmtCall(formats, tiling, required_features,
                            choose_fmt(gpus[gpu + 1], formats, tiling, required_features))
    /\ UNCHANGED <<overflow_checks, devices, panic_msg, gpus, gpu, video, init_objects,
                   surface_format, present_mode, depth_image, calls, facade_vars,
                   transfer_buffers, live_images, handles, copy_call, image_call,
                   video_call>>

\* let depth_image = Self::create_render_targets(instance, &gpus[gpu], device, allocator)
CreateRenderTargets ==
    /\ pc = "returned"
    /\ last_op' = Op("create_render_targets", 0)
    /\ LET rt == create_render_targets(gpus[gpu + 1], get_size(video), 1)
       IN  /\ calls' = rt.calls
           /\ IF rt.panic # ""
              THEN Panic(rt.panic) /\ UNCHANGED depth_image
              ELSE /\ pc' = "chosen"
                   /\ depth_image' = rt.depth_image
                   /\ UNCHANGED panic_msg
    /\ UNCHANGED <<overflow_checks, devices, gpus, gpu, video, init_objects,
                   surface_format, present_mode, facade_vars, call_vars>>

NextChoose ==
    \/ GetGpus
    \/ ChooseSurfaceFormat
    \/ ChoosePresentMode
    \/ ChooseFmt
    \/ CreateRenderTargets

SpecChoose == InitChoose /\ [][NextChoose]_vars

-----------------------------------------------------------------------------
(* The window on its own: update() polling one event, resized() polled by   *)
(* the frame loop                                                           *)

VideoSizes == WindowSizes \cup {<<640, 480>>}

\* what poll_for_event can hand to update(): nothing, a ConfigureNotify, a
\* focus change, a ClientMessage with 32-bit data (WM_DELETE_WINDOW or another
\* protocol atom) or with data of another width, or any other event
VideoEvents ==
    {NoEvent}
    \cup {ConfigureNotify(size) : size \in VideoSizes}
    \cup {Event("FocusIn"), Event("FocusOut"), Event("ClientMessage8"), Event("MapNotify")}
    \cup {ClientMessage32(atom) : atom \in {"WM_DELETE_WINDOW", "_NET_WM_PING"}}

InitVideo ==
    /\ overflow_checks = TRUE
    /\ devices = <<>>
    /\ NotInitialized

Update ==
    /\ \E ev \in VideoEvents :
        /\ video' = update(video, ev)
        /\ video_call' = [video_call EXCEPT !.event = ev, !.ret = update_returns(video, ev)]
    /\ last_op' = Op("update", 0)
    /\ UNCHANGED <<gpu_vars, backend_vars, facade_vars, transfer_buffers, live_images,
                   handles, copy_call, image_call, fmt_call>>

Resized ==
    /\ video' = resized(video).video
    /\ video_call' = [video_call EXCEPT !.resized = resized(video).ret]
    /\ last_op' = Op("resized", 0)
    /\ UNCHANGED <<gpu_vars, backend_vars, facade_vars, transfer_buffers, live_images,
                   handles, copy_call, image_call, fmt_call>>

NextVideo ==
    \/ Update
    \/ Resized

SpecVideo == InitVideo /\ [][NextVideo]_vars

-----------------------------------------------------------------------------
(* Device selection: C1, C2, C3 (checked under SpecGpus) *)

Returned == pc = "returned"

\* C1: the list get_gpus returns is ordered by non-increasing
\* performance_score, for every combination of u32 scores.
C1_NonIncreasingScores ==
    Returned =>
        \A i \in 1..(Len(gpus) - 1) :
            ~Less(gpus[i].performance_score, gpus[i + 1].performance_score)

\* The filter steps as the contract states them
HasFamily(dev, flag) ==
    \E i \in 1..Len(dev.queue_family_props) :
        /\ dev.queue_family_props[i].queue_count >= 1
        /\ flag \in dev.queue_family_props[i].queue_flags

PassesFilters(dev) ==
    /\ Len(dev.queue_family_props) >= 1
    /\ HasFamily(dev, "GRAPHICS")
    /\ HasFamily(dev, "COMPUTE")
    /\ dev.extension_props.ok
    /\ Len(dev.extension_props.val) >= Len(get_required_device_exts)
    /\ dev.surface_capabilities.ok
    /\ dev.surface_formats.ok /\ Len(dev.surface_formats.val) >= 1
    /\ dev.present_modes.ok /\ Len(dev.present_modes.val) >= 1

Retained(d) == \E k \in 1..Len(gpus) : gpus[k].device = d

ValidFamily(dev, idx, flag) ==
    /\ idx + 1 \in 1..Len(dev.queue_family_props)
    /\ dev.queue_family_props[idx + 1].queue_count >= 1
    /\ flag \in dev.queue_family_props[idx + 1].queue_flags

\* C2: a device is in the list get_gpus returns exactly when it passes every
\* filter step, and every retained candidate has a surface format, a present
\* mode and valid graphics and compute family indices.
C2_RetainedIffPassesFilters ==
    Returned =>
        /\ \A d \in 1..Len(devices) : Retained(d) <=> PassesFilters(devices[d])
        /\ \A k \in 1..Len(gpus) :
            /\ gpus[k].surface_formats # <<>>
            /\ gpus[k].present_modes # <<>>
            /\ ValidFamily(devices[gpus[k].device], gpus[k].graphics_family_index, "GRAPHICS")
            /\ ValidFamily(devices[gpus[k].device], gpus[k].compute_family_index, "COMPUTE")

\* get_gpus returned with one device kept (its graphics and compute families
\* differ) and one dropped
C2_Witness ==
    /\ Returned
    /\ Len(devices) = 2
    /\ Len(gpus) = 1
    /\ gpus[1].graphics_family_index # gpus[1].compute_family_index
    /\ \E d \in 1..2 : ~PassesFilters(devices[d])

\* (heap0 / 1000 + width * height / 1000) * factor, without any width limit
ExactScore(dev) ==
    LET heap_k == DivSmall(dev.heap0_size, 1000)
        view_k == DivSmall(MulBytes(dev.max_viewport_dimensions[1],
                                    dev.max_viewport_dimensions[2]), 1000)
        factor == CASE dev.device_type \in {"DISCRETE_GPU", "VIRTUAL_GPU"} -> 10
                    [] dev.device_type = "INTEGRATED_GPU" -> 2
                    [] OTHER -> 1
    IN  MulSmall(AddCarry(heap_k, view_k, 0), factor, 0)

\* C3: performance_score is (heap0 / 1000 + width * height / 1000) times 10,
\* 2 or 1 by device type, computed without overflowing or truncating the
\* 32-bit score for any input.
C3_ScoreIsExact ==
    /\ panic_msg # "attempt to add or multiply with overflow"
    /\ Returned =>
        \A k \in 1..Len(gpus) :
            Pad(gpus[k].performance_score, 10) = ExactScore(devices[gpus[k].device])

-----------------------------------------------------------------------------
(* Swapchain, shutdown, set_gpu: C5 - C10 (checked under Spec) *)

Ready == pc = "ready"

Recreated == Ready /\ last_op.op = "recreate_swapchain"

\* C5: after recreate_swapchain completes, the extent of the new swapchain is
\* the window size the video component reports at the time of the call.
C5_ExtentIsWindowSize ==
    Recreated => swapchain.extent = get_size(video)

Range(seq) == {seq[i] : i \in 1..Len(seq)}

\* C6: after init and after every recreate_swapchain there are exactly
\* FRAME_COUNT views, view i is a view of image i of the current swapchain,
\* every image is the current swapchain's, and no destroyed handle is kept.
C6_ViewsOfCurrentSwapchain ==
    Ready =>
        /\ Len(swapchain_views) = FRAME_COUNT
        /\ Len(swapchain_images) >= FRAME_COUNT
        /\ \A i \in 1..Len(swapchain_images) :
            /\ swapchain_images[i].kind = "SwapchainImage"
            /\ swapchain_images[i].gen = swapchain.gen
            /\ swapchain_images[i].idx = i - 1
        /\ \A i \in 1..Len(swapchain_views) :
            /\ i <= Len(swapchain_images)
            /\ swapchain_views[i].gen = swapchain_images[i].gen
            /\ swapchain_views[i].image = swapchain_images[i].idx
        /\ ({swapchain, depth_image.handle, depth_image.view}
              \cup Range(swapchain_views)) \cap destroyed = {}

\* the second recreate_swapchain completed, the driver having returned more
\* images than FRAME_COUNT
C6_Witness ==
    /\ Recreated
    /\ generation = 3
    /\ Len(swapchain_images) > FRAME_COUNT
    /\ destroyed # {}

\* the position of the one call `c` in `cs`, 0 when it is not there exactly once
Pos(cs, c) ==
    LET at == {i \in 1..Len(cs) : cs[i] = c}
    IN  IF Cardinality(at) = 1 THEN CHOOSE i \in at : TRUE ELSE 0

\* C7: recreate_swapchain destroys the old depth image, then every old view,
\* then the old swapchain, then creates the new swapchain and its views, then
\* the new depth image.
C7_RecreateOrder ==
    [][ (pc' = "ready" /\ last_op'.op = "recreate_swapchain") =>
        LET cs          == calls'
            depth_view  == Pos(cs, Call("destroy_image_view", depth_image.view))
            depth       == Pos(cs, Call("destroy_image", depth_image.handle))
            view(i)     == Pos(cs, Call("destroy_image_view", swapchain_views[i]))
            chain       == Pos(cs, Call("destroy_swapchain", swapchain))
            new_chain   == Pos(cs, Call("create_swapchain", swapchain'))
            new_view(i) == Pos(cs, Call("create_image_view", swapchain_views'[i]))
            new_depth   == Pos(cs, Call("create_image", depth_image'.handle))
        IN  /\ 0 < depth_view /\ depth_view < depth
            /\ \A i \in 1..Len(swapchain_views) : depth < view(i) /\ view(i) < chain
            /\ chain < new_chain
            /\ \A i \in 1..Len(swapchain_views') :
                   new_chain < new_view(i) /\ new_view(i) < new_depth
            /\ Len(swapchain_views) = FRAME_COUNT
            /\ swapchain' # swapchain
      ]_vars

\* the second recreate_swapchain completed
C7_Witness ==
    /\ Recreated
    /\ generation = 3
    /\ Len(calls) = 2 * FRAME_COUNT + 7

\* C8: when recreate_swapchain starts destroying, every frame-slot fence is
\* signaled.
C8_FencesSignaledAtRecreate ==
    [][ last_op'.op = "recreate_swapchain" =>
        /\ Len(fences) = FRAME_COUNT
        /\ \A i \in 1..Len(fences) : fences[i] \in signaled
      ]_vars

\* recreate_swapchain has destroyed the first swapchain, all fences signaled
C8_Witness ==
    /\ Recreated
    /\ \E sc \in destroyed : sc.kind = "SwapchainKHR" /\ sc.gen = 1
    /\ Range(fences) \subseteq signaled
    /\ Len(fences) = FRAME_COUNT

\* C9: shutdown destroys the logical device exactly once and only after every
\* resource that depends on it, the memory allocator included, each destroyed
\* exactly once; the surface and the instance are destroyed after the device.
C9_DeviceDestroyedAfterDependents ==
    [][ last_op'.op = "shutdown" =>
        LET cs == calls'
            destroy(obj) ==
                LET at == {i \in 1..Len(cs) : cs[i].obj = obj /\ cs[i].call \in DestroyCalls}
                IN  IF Cardinality(at) = 1 THEN CHOOSE i \in at : TRUE ELSE 0
            dependents ==
                Range(uniform_buffers) \cup Range(swapchain_views)
                \cup Range(acquire_semaphores) \cup Range(render_complete_semaphores)
                \cup Range(fences)
                \cup {descriptor_pool, descriptor_layout, depth_image.handle,
                      depth_image.view, swapchain, command_pool, transfer_pool, allocator}
        IN  /\ destroy(device) > 0
            /\ \A obj \in dependents : 0 < destroy(obj) /\ destroy(obj) < destroy(device)
            /\ destroy(device) < destroy(surface)
            /\ destroy(device) < destroy(instance)
            /\ Cardinality(Range(uniform_buffers)) = FRAME_COUNT
            /\ Cardinality(Range(acquire_semaphores) \cup Range(render_complete_semaphores))
                 = 2 * FRAME_COUNT
            /\ Cardinality(Range(fences)) = FRAME_COUNT
      ]_vars

\* C10: set_gpu(i) sets the active index to i when i < the number of
\* candidates and leaves it alone otherwise, raises no error, and returns the
\* index that was active before the call.
C10_SetGpu ==
    [][ last_op'.op = "set_gpu" =>
        /\ last_op'.arg <  Len(gpus) => gpu' = last_op'.arg
        /\ last_op'.arg >= Len(gpus) => gpu' = gpu
        /\ ret' = gpu
        /\ pc' = pc /\ panic_msg' = panic_msg
      ]_vars

\* an out-of-range set_gpu after an in-range one had selected candidate 1
C10_Witness ==
    /\ last_op.op = "set_gpu"
    /\ last_op.arg >= Len(gpus)
    /\ gpu = 1
    /\ ret = 1

-----------------------------------------------------------------------------
(* Initialization: C11, C12 (checked under Spec) *)

Initialized == Ready /\ last_op.op = "init"

\* C11: with no usable device get_gpus panics and init produces no State;
\* when init completes the candidate list is non-empty, index 0 is selected
\* and no candidate has a higher performance_score than the selected one.
C11_InitSelectsHighestScore ==
    /\ (last_op.op = "init" /\ \A d \in 1..Len(devices) : ~PassesFilters(devices[d])) =>
           /\ pc = "panicked"
           /\ panic_msg = "Could not find any usable Vulkan devices"
           /\ device = Null
    /\ Initialized =>
           /\ gpus # <<>>
           /\ gpu = 0
           /\ \A k \in 1..Len(gpus) :
                  ~Less(gpus[gpu + 1].performance_score, gpus[k].performance_score)

\* C12: init creates exactly FRAME_COUNT fences, each one signaled, and
\* FRAME_COUNT acquire plus FRAME_COUNT render-complete semaphores, all distinct.
C12_FencesAndSemaphoresAtInit ==
    Initialized =>
        /\ Len(fences) = FRAME_COUNT
        /\ Cardinality(Range(fences)) = FRAME_COUNT
        /\ Range(fences) \subseteq signaled
        /\ Len(acquire_semaphores) = FRAME_COUNT
        /\ Len(render_complete_semaphores) = FRAME_COUNT
        /\ Cardinality(Range(acquire_semaphores) \cup Range(render_complete_semaphores))
             = 2 * FRAME_COUNT

\* init has completed and the fence of slot 0 can be waited on without blocking
C12_Witness ==
    /\ Initialized
    /\ fences # <<>>
    /\ fences[1] \in signaled
    /\ acquire_semaphores # <<>>

-----------------------------------------------------------------------------
(* The facade's life: C13 - C16 (C14 under Spec, the others under SpecRender) *)

Called(cs, name) == \E i \in 1..Len(cs) : cs[i].call = name

Count(cs, name) == Cardinality({i \in 1..Len(cs) : cs[i].call = name})

\* C13: load_resources runs the backend load only when the backend is
\* initialized and not loaded, unload_resources the backend unload only when
\* it is initialized and loaded; a call that does not run it changes nothing;
\* the backend loads and unloads alternate, starting with a load.
C13_LoadUnloadAlternate ==
    /\ ~loaded
    /\ [][ /\ last_op'.op = "load_resources" =>
                IF is_initialized /\ ~loaded
                THEN Count(calls', "load_resources") = 1 /\ loaded'
                ELSE calls' = <<>> /\ facade_vars' = facade_vars
           /\ last_op'.op = "unload_resources" =>
                IF is_initialized /\ loaded
                THEN Count(calls', "unload_resources") = 1 /\ ~loaded'
                ELSE calls' = <<>> /\ facade_vars' = facade_vars
           /\ Called(calls', "load_resources") => ~loaded /\ loaded'
           /\ Called(calls', "unload_resources") => loaded /\ ~loaded'
           /\ (~Called(calls', "load_resources") /\ ~Called(calls', "unload_resources"))
                => loaded' = loaded
         ]_vars

\* load_resources was called on a loaded backend and ran nothing
C13_Witness ==
    /\ last_op.op = "load_resources"
    /\ loaded
    /\ calls = <<>>

\* C14: begin_cmds sets the in-frame flag of an initialized backend, present
\* clears it, nothing else changes it, and a begin_cmds in a frame or a
\* present outside one changes nothing.
C14_InFrameFlag ==
    /\ ~in_frame
    /\ [][ /\ last_op'.op = "begin_cmds" => in_frame'
           /\ last_op'.op = "present" => ~in_frame'
           /\ last_op'.op \notin {"begin_cmds", "present"} => in_frame' = in_frame
         ]_vars

C16_UnloadBeforeRelease ==
    [][ last_op'.op = "render_shutdown" =>
          LET cs == calls'
              released == {i \in 1..Len(cs) : cs[i].call \in DestroyCalls}
          IN  /\ Count(cs, "unload_resources") = (IF loaded THEN 1 ELSE 0)
              /\ \A i \in 1..Len(cs) :
                    cs[i].call = "unload_resources" => \A j \in released : i < j
              /\ released # {}
              /\ Pos(cs, Call("destroy_device", device)) > 0
              /\ ~loaded'
      ]_vars

\* shutdown of a loaded render system: the unload came first
C16_Witness ==
    /\ last_op.op = "render_shutdown"
    /\ calls # <<>>
    /\ calls[1].call = "unload_resources"
    /\ destroyed # {}

-----------------------------------------------------------------------------
(* The registries: C17 - C20 (checked under SpecRender) *)

\* the registry `new` is `old` with `name` mapped to `arc`
Maps(new, old, name, arc) ==
    /\ new[name] = arc
    /\ \A n \in DOMAIN old : n # name => new[n] = old[n]

\* C17: Material::new with an unregistered shader name returns an error and
\* changes no registry; with a registered one it succeeds and the materials
\* registry maps the name to the returned material.
C17_MaterialNeedsShader ==
    [][ last_op'.op = "Material::new" =>
          LET name   == request'.name
              shader == request'.ref
          IN  /\ shaders' = shaders /\ models' = models
              /\ IF shaders[shader] = 0
                 THEN /\ ~result'.ok
                      /\ materials' = materials
                      /\ arcs' = arcs
                 ELSE /\ result'.ok
                      /\ Maps(materials', materials, name, result'.val)
                      /\ result'.val \in 1..Len(arcs')
                      /\ arcs'[result'.val].kind = "Material"
                      /\ arcs'[result'.val].name = name
                      /\ arcs'[result'.val].ref = shaders[shader]
      ]_vars

\* Material::new failed on an unregistered shader while a material was registered
C17_Witness ==
    /\ last_op.op = "Material::new"
    /\ shaders[request.ref] = 0
    /\ ~result.ok
    /\ \E n \in MaterialNames : materials[n] # 0

\* C18: Model::new with an unregistered material name returns an error,
\* changes no registry and leaves no backend model data behind; with a
\* registered one it succeeds and the models registry maps the name to the
\* returned model.
C18_ModelNeedsMaterial ==
    [][ (last_op'.op = "Model::new" /\ pc' = "ready") =>
          LET name     == request'.name
              material == request'.ref
          IN  IF materials[material] = 0
              THEN /\ ~result'.ok
                   /\ models' = models
                   /\ backend_data' = backend_data
              ELSE /\ result'.ok
                   /\ Maps(models', models, name, result'.val)
      ]_vars

\* C19: Shader::new registers the shader only when the two reads and the
\* backend creation succeed; a failed read returns Io and a failed creation
\* the backend's error, the registry is then unchanged, and no later step
\* is attempted after a failed one.
C19_ShaderRegisteredOnSuccess ==
    [][ last_op'.op = "Shader::new" =>
          LET name        == request'.name
              vertex_ok   == request'.vertex_ok
              fragment_ok == request'.fragment_ok
              created     == request'.created
          IN  /\ materials' = materials /\ models' = models
              /\ result'.ok <=> (vertex_ok /\ fragment_ok /\ created)
              /\ result'.ok =>
                    /\ Maps(shaders', shaders, name, result'.val)
                    /\ result'.val \in 1..Len(arcs')
                    /\ arcs'[result'.val].kind = "Shader"
              /\ ~result'.ok => shaders' = shaders /\ arcs' = arcs
              /\ ~vertex_ok =>
                    /\ result' = Failed("Io")
                    /\ calls' = <<Call("fs::read", Obj("vertex binary", 0, 0))>>
              /\ (vertex_ok /\ ~fragment_ok) =>
                    /\ result' = Failed("Io")
                    /\ ~Called(calls', "ShaderData::new")
                    /\ backend_data' = backend_data
              /\ (vertex_ok /\ fragment_ok /\ ~created) => result' = Failed("Backend")
      ]_vars

\* the backend refused a shader while another one was registered
C19_Witness ==
    /\ last_op.op = "Shader::new"
    /\ result = Failed("Backend")
    /\ Called(calls, "ShaderData::new")
    /\ \E n \in ShaderNames : shaders[n] # 0

\* every owned arc refers to a live arc allocated before it, of the kind below it
Chain(as) ==
    \A i \in 1..Len(as) :
        as[i].strong > 0 =>
            CASE as[i].kind = "Shader" -> as[i].ref = 0
              [] as[i].kind = "Material" ->
                    /\ as[i].ref \in 1..(i - 1)
                    /\ as[as[i].ref].kind = "Shader"
                    /\ as[as[i].ref].strong >= 1
              [] as[i].kind = "Model" ->
                    /\ as[i].ref \in 1..(i - 1)
                    /\ as[as[i].ref].kind = "Material"
                    /\ as[as[i].ref].strong >= 1

\* C20: whatever is created or registered later, an owned material keeps
\* referring to the shader object it was created with, that object keeps at
\* least one owner, and the references form the chain Model -> Material ->
\* Shader.
C20_MaterialKeepsItsShader ==
    [][ /\ Chain(arcs')
        /\ pc' = "ready" =>
              \A i \in 1..Len(arcs) :
                  /\ i <= Len(arcs')
                  /\ arcs'[i].kind = arcs[i].kind
                  /\ arcs'[i].ref = arcs[i].ref
                  /\ arcs'[i].handle = arcs[i].handle
      ]_vars

\* a registered material refers to a shader whose name has since been
\* registered again with another shader object
C20_Witness ==
    \E n \in MaterialNames :
        /\ materials[n] # 0
        /\ LET shader == arcs[materials[n]].ref
           IN  /\ shaders[arcs[shader].name] \notin {0, shader}
               /\ arcs[shader].strong = 1

-----------------------------------------------------------------------------
(* C21: Buffer::copy *)

\* the calls of cs named `name`, as positions
At(cs, name) == {i \in 1..Len(cs) : cs[i].call = name}

Copied == pc = "ready" /\ last_op.op = "Buffer::copy"

\* C21: a Buffer::copy that returns has allocated exactly one command buffer
\* from the transfer pool, has begun it with ONE_TIME_SUBMIT, recorded a copy
\* of the whole source size, ended, submitted, waited for the queue to be idle
\* and freed it, in this order, and leaves no command buffer of the transfer
\* pool allocated
C21_CopyFreesWhatItAllocates ==
    Copied =>
        /\ Count(calls, "allocate_command_buffers") = 1
        /\ \A a \in At(calls, "allocate_command_buffers") :
              calls = <<calls[a],
                        Call("begin_command_buffer(ONE_TIME_SUBMIT)", calls[a].obj),
                        Call("cmd_copy_buffer", calls[a].obj),
                        Call("end_command_buffer", calls[a].obj),
                        Call("queue_submit", calls[a].obj),
                        Call("queue_wait_idle", graphics_queue),
                        Call("free_command_buffers", calls[a].obj)>>
        /\ copy_call.region = copy_call.size
        /\ transfer_buffers = {}

-----------------------------------------------------------------------------
(* C22, C23: set_gpu and recreate_swapchain *)

\* C22: a set_gpu that selects a different candidate in range leaves the
\* logical device and the swapchain objects unchanged and makes the graphics
\* and compute queues those of the newly selected candidate, which is the
\* candidate gpus[gpu] a later recreate_swapchain uses
C22_QueuesFollowSetGpu ==
    [][(/\ pc = "ready"
        /\ last_op'.op = "set_gpu"
        /\ last_op'.arg < Len(gpus)
        /\ last_op'.arg # gpu) =>
            /\ gpu' = last_op'.arg
            /\ device' = device
            /\ swapchain' = swapchain
            /\ swapchain_images' = swapchain_images
            /\ swapchain_views' = swapchain_views
            /\ graphics_queue' = create_device(gpus'[gpu' + 1]).graphics_queue
            /\ compute_queue' = create_device(gpus'[gpu' + 1]).compute_queue]_vars

\* C23: after init and after every recreate_swapchain the depth image has the
\* width and height of the swapchain extent, whatever resizes came between
C23_DepthImageIsSwapchainExtent ==
    (Initialized \/ Recreated) =>
        /\ depth_image.handle.extent = swapchain_extent
        /\ depth_image.handle.extent = swapchain.extent

-----------------------------------------------------------------------------
(* C24: Image::new *)

Kinds(S) == {h.kind : h \in S}

\* C24: Image::new writes the requested format to the create descriptor; when
\* image creation fails it returns that error and nothing has been allocated;
\* when view creation fails it returns the view error and the image and its
\* allocation stay allocated; on success the returned Image holds the handle,
\* allocation and view just created and the requested format, and the view
\* descriptor names that image and format
C24_ImageNew ==
    [][(pc = "ready" /\ last_op'.op = "Image::new" /\ handles' # handles) =>
        LET c   == image_call'
            new == live_images' \ live_images
        IN  /\ c.create_info.format = c.format
            /\ live_images \subseteq live_images'
            /\ Destroyed(calls') = {}
            /\ c.image_res # "SUCCESS" =>
                  /\ ~c.ok /\ c.err = c.image_res
                  /\ new = {}
                  /\ calls' = <<>>
            /\ (c.image_res = "SUCCESS" /\ c.view_res # "SUCCESS") =>
                  /\ ~c.ok /\ c.err = c.view_res
                  /\ Cardinality(new) = 2
                  /\ Kinds(new) = {"Image", "Allocation"}
                  /\ c.view_info.image \in new
                  /\ c.view_info.format = c.format
            /\ (c.image_res = "SUCCESS" /\ c.view_res = "SUCCESS") =>
                  /\ c.ok
                  /\ Cardinality(new) = 3
                  /\ new = {c.image.handle, c.image.allocation, c.image.view}
                  /\ c.image.handle.kind = "Image"
                  /\ c.image.allocation.kind = "Allocation"
                  /\ c.image.view.kind = "ImageView"
                  /\ c.image.format = c.format
                  /\ c.view_info.image = c.image.handle
                  /\ c.view_info.format = c.format
                  /\ calls' = <<Call("create_image", c.image.handle),
                                Call("create_image_view", c.image.view)>>]_vars

\* an Image::new whose view creation failed after an earlier one succeeded:
\* the image of the failed call is still allocated
C24_Witness ==
    /\ last_op.op = "Image::new"
    /\ image_call.image_res = "SUCCESS"
    /\ image_call.view_res = "ERROR_OUT_OF_HOST_MEMORY"
    /\ image_call.view_info.image \in live_images
    /\ Cardinality(live_images) = 5

-----------------------------------------------------------------------------
(* C25 - C27: the selection helpers *)

\* the features the chosen candidate reports for format f under a tiling
Features(f, tiling) ==
    IF tiling = "LINEAR" THEN gpus[gpu + 1].format_props[f].linear_tiling_features
    ELSE IF tiling = "OPTIMAL" THEN gpus[gpu + 1].format_props[f].optimal_tiling_features
    ELSE {}

Qualifies(f, tiling, required) ==
    tiling \in {"LINEAR", "OPTIMAL"} /\ \A r \in required : r \in Features(f, tiling)

DepthSupported(f) == Qualifies(f, "OPTIMAL", {"DEPTH_STENCIL_ATTACHMENT"})

\* C25: choose_fmt returns the first candidate, in list order, whose features
\* for the tiling contain every required flag, and UNDEFINED when none does or
\* the tiling is neither LINEAR nor OPTIMAL; create_render_targets picks
\* D32_SFLOAT_S8_UINT whenever it is supported, D24_UNORM_S8_UINT only when
\* D32 is not, and panics when neither is
C25_FirstQualifyingFormat ==
    /\ last_op.op = "choose_fmt" =>
          LET q == fmt_call
              ok(i) == Qualifies(q.formats[i], q.tiling, q.required_features)
          IN  /\ (\E i \in 1..Len(q.formats) : ok(i)) =>
                    \E i \in 1..Len(q.formats) :
                        /\ ok(i)
                        /\ \A j \in 1..(i - 1) : ~ok(j)
                        /\ q.ret = q.formats[i]
              /\ (\A i \in 1..Len(q.formats) : ~ok(i)) => q.ret = "UNDEFINED"
              /\ q.tiling \notin {"LINEAR", "OPTIMAL"} => q.ret = "UNDEFINED"
    /\ last_op.op = "create_render_targets" =>
          /\ DepthSupported("D32_SFLOAT_S8_UINT") =>
                pc = "chosen" /\ depth_image.format = "D32_SFLOAT_S8_UINT"
          /\ (~DepthSupported("D32_SFLOAT_S8_UINT") /\ DepthSupported("D24_UNORM_S8_UINT")) =>
                pc = "chosen" /\ depth_image.format = "D24_UNORM_S8_UINT"
          /\ (~DepthSupported("D32_SFLOAT_S8_UINT") /\ ~DepthSupported("D24_UNORM_S8_UINT")) =>
                /\ pc = "panicked"
                /\ panic_msg = "No supported depth formats found"
                /\ depth_image = NoImage

\* LINEAR tiling, the first candidate qualifies only under OPTIMAL tiling, the
\* second under LINEAR: the second is returned
C25_Witness ==
    /\ last_op.op = "choose_fmt"
    /\ fmt_call.tiling = "LINEAR"
    /\ Len(fmt_call.formats) = 2
    /\ fmt_call.required_features = {"DEPTH_STENCIL_ATTACHMENT"}
    /\ Qualifies(fmt_call.formats[1], "OPTIMAL", fmt_call.required_features)
    /\ ~Qualifies(fmt_call.formats[1], "LINEAR", fmt_call.required_features)
    /\ fmt_call.ret = fmt_call.formats[2]
    /\ fmt_call.formats[2] # fmt_call.formats[1]

\* what choose_surface_format returns in each of the three cases of the list
SurfaceFormatCases ==
    LET l    == gpus[gpu + 1].surface_formats
        sole == Len(l) = 1 /\ l[1].format = "UNDEFINED"
        has  == \E i \in 1..Len(l) : l[i] = BGRA
    IN  /\ l # <<>>
        /\ sole => surface_format = BGRA
        /\ (~sole /\ has) => surface_format = BGRA
        /\ (~sole /\ ~has) => surface_format = l[1]

\* C26 as stated: choose_surface_format returns the B8G8R8A8_UNORM,
\* SRGB_NONLINEAR pair for a list of one UNDEFINED entry, otherwise that pair
\* when the list contains it, otherwise the first entry; the returned format
\* is never UNDEFINED
C26_SurfaceFormatNeverUndefined ==
    last_op.op = "choose_surface_format" =>
        /\ SurfaceFormatCases
        /\ surface_format.format # "UNDEFINED"

\* C26 as amended: the three cases as stated; the returned format is UNDEFINED
\* only when the list has at least two entries, does not contain the
\* B8G8R8A8_UNORM, SRGB_NONLINEAR pair and begins with an UNDEFINED entry
C26_SurfaceFormat ==
    last_op.op = "choose_surface_format" =>
        LET l == gpus[gpu + 1].surface_formats
        IN  /\ SurfaceFormatCases
            /\ surface_format.format = "UNDEFINED" =>
                  /\ Len(l) >= 2
                  /\ l[1].format = "UNDEFINED"
                  /\ \A i \in 1..Len(l) : l[i] # BGRA

\* the preferred pair is the second entry of the list and is returned
C26_Witness ==
    /\ last_op.op = "choose_surface_format"
    /\ Len(gpus[gpu + 1].surface_formats) = 2
    /\ gpus[gpu + 1].surface_formats[1] = BGRA_P3
    /\ gpus[gpu + 1].surface_formats[2] = BGRA
    /\ surface_format = BGRA

\* C27: choose_present_mode returns MAILBOX exactly when MAILBOX is in the
\* candidate's present-mode list and FIFO in every other case, also when FIFO
\* is not in the list
C27_PresentMode ==
    last_op.op = "choose_present_mode" =>
        LET l == gpus[gpu + 1].present_modes
        IN  /\ present_mode = "MAILBOX" <=> \E i \in 1..Len(l) : l[i] = "MAILBOX"
            /\ present_mode # "MAILBOX" => present_mode = "FIFO"

\* a list with neither MAILBOX nor FIFO: FIFO is returned
C27_Witness ==
    /\ last_op.op = "choose_present_mode"
    /\ \A i \in 1..Len(gpus[gpu + 1].present_modes) :
          gpus[gpu + 1].present_modes[i] \in {"IMMEDIATE", "FIFO_RELAXED"}
    /\ present_mode = "FIFO"

-----------------------------------------------------------------------------
(* C28: the active candidate *)

\* the candidates that are active: those the index gpu names
Active == {i \in 1..Len(gpus) : i - 1 = gpu}

\* C28: in every state reached from init by set_gpu calls with any arguments
\* the active index is at least 0 and less than the number of candidates and
\* exactly one candidate is active, and no set_gpu changes the candidate list
\* or its order
C28_ActiveIndexInRange ==
    /\ [](Ready => (0 <= gpu /\ gpu < Len(gpus) /\ Cardinality(Active) = 1))
    /\ [][(pc = "ready" /\ last_op'.op = "set_gpu") => gpus' = gpus]_vars

\* set_gpu called with an index past the end while the second of two
\* candidates is active
C28_Witness ==
    /\ Ready
    /\ last_op = Op("set_gpu", 2)
    /\ Len(gpus) = 2
    /\ gpu = 1

-----------------------------------------------------------------------------
(* C29, C30: the window's resized latch and its closed flag *)

\* the step is an update() that polled a ConfigureNotify whose size differs
\* from the window's
SizeChange ==
    /\ last_op'.op = "update"
    /\ video_call'.event.type = "ConfigureNotify"
    /\ <<video_call'.event.width, video_call'.event.height>> # get_size(video)

\* C29: the resized flag is a read-and-clear latch.  It is clear after init; an
\* update() sets it exactly when it processes a ConfigureNotify that changes
\* the width or the height, and no update() clears it; resized() returns it
\* and clears it, so several changes between two polls are reported once; and
\* get_size() is the size of the last ConfigureNotify processed
C29_ResizedLatch ==
    /\ [](last_op.op = "" => (~video.resized /\ ~video_call.resized))
    /\ [][/\ last_op'.op = "update" =>
                /\ video'.resized = (video.resized \/ SizeChange)
                /\ video_call'.resized = video_call.resized
                /\ IF video_call'.event.type = "ConfigureNotify"
                   THEN get_size(video') =
                            <<video_call'.event.width, video_call'.event.height>>
                   ELSE get_size(video') = get_size(video)
          /\ last_op'.op = "resized" =>
                /\ video_call'.resized = video.resized
                /\ ~video'.resized
                /\ get_size(video') = get_size(video)]_vars

\* resized() has reported, once, a change to 1920 x 1080 and cleared the flag
C29_Witness ==
    /\ last_op.op = "resized"
    /\ video_call.resized
    /\ ~video.resized
    /\ video_call.event.type = "ConfigureNotify"
    /\ get_size(video) = <<1920, 1080>>

\* C30: once an update() has processed a WM_DELETE_WINDOW ClientMessage and
\* returned false, every later update() returns false whatever it polls; and
\* an update() returns false only then
C30_CloseIsSticky ==
    [][last_op'.op = "update" =>
          /\ ~video_call.ret => ~video_call'.ret
          /\ ~video_call'.ret =>
                \/ video_call'.event = ClientMessage32("WM_DELETE_WINDOW")
                \/ ~video_call.ret]_vars

====
